---------------------------- MODULE Spec2Model ----------------------------
(***************************************************************************)
(* Remote matching and metadata cache of the Design Code Utility           *)
(* (DesignCodeUtility/src/metadata.js).                                    *)
(*                                                                         *)
(* JavaScript values are modelled as follows.  Strings are TLA+ strings,   *)
(* numbers are naturals, objects are functions from field names to values  *)
(* (a field that is not set is not in the DOMAIN), a Map is a function     *)
(* from its keys to its values, an array is a sequence.  The text of a     *)
(* tracking file is a sequence of tokens.                                  *)
(***************************************************************************)
EXTENDS Integers, Sequences, FiniteSets, TLC

VARIABLES
    server,      \* what the target server answers to each fetch
    supports,    \* endPointTransceiver.serverSupports("getElements")
    cache,       \* the module-level cache object (metadata.js line 21)
    fetch,       \* state of each request in flight
    wiPromise,   \* the promise returned by cacheWidgetInstances
    aggregate,   \* the promise returned by initializeMetadata
    files,       \* the tracking files on disk: path -> text
    etags,       \* the etag side channel: asset path -> etag
    transfer,    \* inTransferMode()
    call,        \* the last matcher / store operation that ran, with its input
    result,      \* what that operation returned
    log,         \* the messages that operation emitted through info / warn
    written      \* history: tracking path -> content writeMetadata stored there,
                 \* for the files not rewritten since

vars == <<server, supports, cache, fetch, wiPromise, aggregate,
          files, etags, transfer, call, result, log, written>>

cacheVars == <<server, supports, cache, fetch, wiPromise, aggregate>>

storeVars == <<files, etags, written>>

callVars == <<transfer, call, result, log>>

(***************************************************************************)
(* Bounds of the model.                                                    *)
(***************************************************************************)
MaxVersion == 2

MaxKeyDigit == 1

MaxNameParts == 2

MaxInstances == 2

MaxDescriptors == 2

(***************************************************************************)
(* Generic helpers for Maps and objects.                                   *)
(***************************************************************************)
EmptyMap == [k \in {} |-> 0]

MapSet(m, k, v) == [x \in (DOMAIN m) \cup {k} |-> IF x = k THEN v ELSE m[x]]

MapHas(m, k) == k \in DOMAIN m

Without(obj, f) == [x \in (DOMAIN obj) \ {f} |-> obj[x]]

Range(s) == {s[i] : i \in DOMAIN s}

(***************************************************************************)
(* makeWidgetInstanceKey (metadata.js 61-63): a template literal, that is  *)
(* string concatenation of the literal parts with ToString of the two      *)
(* arguments.                                                              *)
(***************************************************************************)
makeWidgetInstanceKeyNoSeparator(displayName, version) ==
    "Display Name: " \o displayName \o ToString(version)

makeWidgetInstanceKeyNameOnly(displayName, version) ==
    "Display Name: " \o displayName

makeWidgetInstanceKey(displayName, version) ==
    "Display Name: " \o displayName \o " Version: " \o ToString(version)


(***************************************************************************)
(* What the target server holds.  A widget as getAllWidgetInstances        *)
(* returns it carries the list of its instances; an instance may or may    *)
(* not have a currentLayout.                                               *)
(***************************************************************************)
Names == {"A", "B"}

Versions == 1 .. MaxVersion

Layout(n) ==
    [repositoryId |-> "LI" \o ToString(n),
     widgetLayoutDescriptor |-> [repositoryId |-> "LD" \o ToString(n)]]

ServerInstance(id, name, version) ==
    [repositoryId |-> id, displayName |-> name, version |-> version]

ServerInstanceWithLayout(id, name, version, n) ==
    [repositoryId |-> id, displayName |-> name, version |-> version,
     currentLayout |-> Layout(n)]

ServerWidget(id, name, version, type, instances) ==
    [repositoryId |-> id, displayName |-> name, version |-> version,
     widgetType |-> type, instances |-> instances]

NoItems == [hasItems |-> FALSE, items |-> << >>]

Items(items) == [hasItems |-> TRUE, items |-> items]

FetchIds == {"wi100", "wi101", "wd", "we", "ge", "si", "sd", "th"}

(***************************************************************************)
(* The callbacks that store a fetch's results in the cache.                *)
(***************************************************************************)
WithDescriptor(instance, widgetDesc) ==
    [f \in (DOMAIN instance) \cup {"descriptor"} |->
        IF f = "descriptor" THEN widgetDesc ELSE instance[f]]

RECURSIVE SetInstances(_, _, _)
SetInstances(m, instances, widgetDesc) ==
    IF instances = << >> THEN m
    ELSE SetInstances(
            MapSet(m,
                   makeWidgetInstanceKey(Head(instances).displayName,
                                         Head(instances).version),
                   WithDescriptor(Head(instances), widgetDesc)),
            Tail(instances), widgetDesc)

RECURSIVE EachWidget(_, _)
EachWidget(m, items) ==
    IF items = << >> THEN m
    ELSE EachWidget(
            SetInstances(m, Head(items).instances,
                         Without(Head(items), "instances")),
            Tail(items))

\* metadata.js 78-93 and 95-110: the two callbacks are the same code.
onWidgetInstances(c, results) ==
    IF results.hasItems
    THEN [c EXCEPT !.widgetInstances = EachWidget(@, results.items)]
    ELSE c

\* metadata.js 121-123
onWidgetDescriptors(c, items) == MapSet(c, "widgetDescriptors", items)

\* metadata.js 133-135
onStackDescriptors(c, items) == MapSet(c, "stackDescriptors", items)

RECURSIVE SetByField(_, _, _)
SetByField(m, items, field) ==
    IF items = << >> THEN m
    ELSE SetByField(MapSet(m, Head(items)[field], Head(items)),
                    Tail(items), field)

\* metadata.js 169-170
onElements(c, field, items) ==
    [c EXCEPT ![field] = SetByField(@, items, "tag")]

\* metadata.js 50-51
onThemes(c, items) == [c EXCEPT !.themes = SetByField(@, items, "name")]

RECURSIVE ConcatInstances(_)
ConcatInstances(stacks) ==
    IF stacks = << >> THEN << >>
    ELSE Head(stacks).instances \o ConcatInstances(Tail(stacks))

RECURSIVE SetStackInstances(_, _)
SetStackInstances(m, instances) ==
    IF instances = << >> THEN m
    ELSE SetStackInstances(
            MapSet(m,
                   makeWidgetInstanceKey(Head(instances).name,
                                         Head(instances).descriptor.version),
                   Head(instances)),
            Tail(instances))

\* metadata.js 194-197
onStackInstances(c, items) ==
    [c EXCEPT !.stackInstances = SetStackInstances(@, ConcatInstances(items))]

onFetched(c, f, srv) ==
    CASE f = "wi100" -> onWidgetInstances(c, srv.wi100)
      [] f = "wi101" -> onWidgetInstances(c, srv.wi101)
      [] f = "wd" -> onWidgetDescriptors(c, srv.wd)
      [] f = "we" -> onElements(c, "widgetElements", srv.we)
      [] f = "ge" -> onElements(c, "globalElements", srv.ge)
      [] f = "si" -> onStackInstances(c, srv.si)
      [] f = "sd" -> onStackDescriptors(c, srv.sd)
      [] f = "th" -> onThemes(c, srv.th)

(***************************************************************************)
(* The synchronous part of the cache functions: the Map is created, and    *)
(* the request is issued.                                                  *)
(***************************************************************************)
\* metadata.js 72
newWidgetInstancesMap(c) == MapSet(c, "widgetInstances", EmptyMap)

\* metadata.js 164
newElementsMap(c, field) == MapSet(c, field, EmptyMap)

\* metadata.js 192
newStackInstancesMap(c) == MapSet(c, "stackInstances", EmptyMap)

\* metadata.js 48
newThemesMap(c) == MapSet(c, "themes", EmptyMap)

\* metadata.js 167: the element fetches are issued only when the server
\* supports getElements.
elementFetchIssuedAlways(sup) == TRUE

elementFetchIssued(sup) == sup

issuedByInitialize(f, sup) ==
    IF f \in {"we", "ge"} THEN elementFetchIssued(sup) ELSE TRUE

(***************************************************************************)
(* Promise.all (metadata.js 30-38 and 76-111): fulfilled when every member *)
(* is fulfilled, rejected as soon as one member is rejected.  A member     *)
(* that is not a promise (cacheElements returning undefined) counts as     *)
(* fulfilled.                                                              *)
(***************************************************************************)
wiPromiseAfterEither(fs, was) ==
    IF was # "pending" THEN was
    ELSE IF "failed" \in {fs["wi100"], fs["wi101"]} THEN "rejected"
    ELSE IF "ok" \in {fs["wi100"], fs["wi101"]} THEN "fulfilled"
    ELSE "pending"

wiPromiseAfter(fs, was) ==
    IF was # "pending" THEN was
    ELSE IF "failed" \in {fs["wi100"], fs["wi101"]} THEN "rejected"
    ELSE IF fs["wi100"] = "ok" /\ fs["wi101"] = "ok" THEN "fulfilled"
    ELSE "pending"

memberFulfilled(f, fs) == fs[f] \in {"ok", "notIssued"}

memberRejected(f, fs) == fs[f] = "failed"

SingleFetches == {"wd", "we", "ge", "si", "sd", "th"}

aggregateAfterIgnoringThemes(fs, wi, was) ==
    IF was # "pending" THEN was
    ELSE IF wi = "rejected" \/ \E f \in SingleFetches : memberRejected(f, fs)
         THEN "rejected"
    ELSE IF wi = "fulfilled"
            /\ \A f \in SingleFetches \ {"th"} : memberFulfilled(f, fs)
         THEN "resolved"
    ELSE "pending"

aggregateAfter(fs, wi, was) ==
    IF was # "pending" THEN was
    ELSE IF wi = "rejected" \/ \E f \in SingleFetches : memberRejected(f, fs)
         THEN "rejected"
    ELSE IF wi = "fulfilled" /\ \A f \in SingleFetches : memberFulfilled(f, fs)
         THEN "resolved"
    ELSE "pending"


(***************************************************************************)
(* Server contents the session is run against.                             *)
(***************************************************************************)
Descriptor(id, name, version, type, layouts) ==
    [repositoryId |-> id, displayName |-> name, version |-> version,
     widgetType |-> type, layouts |-> layouts]

StackDescriptor(id, name, version, type) ==
    [repositoryId |-> id, displayName |-> name, version |-> version,
     stackType |-> type]

StackInstance(id, name, displayName, version) ==
    [repositoryId |-> id, name |-> name, displayName |-> displayName,
     descriptor |-> [repositoryId |-> "SD1", version |-> version]]

Element(tag, id) == [tag |-> tag, repositoryId |-> id]

Theme(name, id) == [name |-> name, repositoryId |-> id]

\* The instances one source partition returns: up to MaxInstances
\* instances of one widget, or a response without items.
InstanceLists(src) ==
    UNION {
        { [i \in 1 .. k |->
              ServerInstance("I" \o src \o ToString(i), nv[i][1], nv[i][2])]
          : nv \in [1 .. k -> Names \X Versions] }
        : k \in 0 .. MaxInstances }

Partition(src) ==
    {NoItems} \cup
    { Items(<<ServerWidget("W" \o src, "A", 1, "t" \o src, insts)>>)
      : insts \in InstanceLists(src) }

SmallPartition(src) ==
    {NoItems,
     Items(<<ServerWidget("W" \o src, "A", 1, "t" \o src,
                          <<ServerInstance("I" \o src, "A", 1)>>)>>)}

FixedServer(p100, p101) ==
    [wi100 |-> p100, wi101 |-> p101,
     wd |-> <<Descriptor("W1", "A", 1, "t1", << >>)>>,
     we |-> <<Element("w1", "WE1")>>,
     ge |-> <<Element("g1", "GE1")>>,
     si |-> <<[repositoryId |-> "S1",
               instances |-> <<StackInstance("SI1", "S", "S", 1)>>]>>,
     sd |-> <<StackDescriptor("SD1", "S", 1, "st1")>>,
     th |-> <<Theme("Dark", "T1")>>]

SessionServers ==
    { FixedServer(p100, p101) :
        p100 \in SmallPartition("100"), p101 \in SmallPartition("101") }

PartitionServers ==
    { FixedServer(p100, p101) :
        p100 \in Partition("100"), p101 \in Partition("101") }

(***************************************************************************)
(* Initial values of the parts of the state a specification leaves alone.  *)
(***************************************************************************)
NoCall == [op |-> "none"]

NoResult == [kind |-> "none"]

IdleCache ==
    /\ cache = EmptyMap
    /\ fetch = [f \in FetchIds |-> "idle"]
    /\ wiPromise = "none"
    /\ aggregate = "none"

IdleStore ==
    /\ files = EmptyMap
    /\ etags = EmptyMap
    /\ written = EmptyMap

IdleCalls ==
    /\ transfer = FALSE
    /\ call = NoCall
    /\ result = NoResult
    /\ log = << >>

(***************************************************************************)
(* Cache population.                                                       *)
(***************************************************************************)
\* The Maps the cache functions create when initializeMetadata calls them
\* (metadata.js 48, 72, 164, 192).
createMaps(c) ==
    newThemesMap(
        newStackInstancesMap(
            newElementsMap(
                newElementsMap(newWidgetInstancesMap(c), "widgetElements"),
                "globalElements")))

\* initializeMetadata (metadata.js 27-39): the seven cache functions are
\* called one after the other, each creating its Map and issuing its
\* request, before control returns to the event loop.
InitializeMetadata ==
    /\ aggregate = "none"
    /\ wiPromise = "none"
    /\ cache' = createMaps(cache)
    /\ fetch' = [f \in FetchIds |->
                    IF issuedByInitialize(f, supports)
                    THEN "inflight" ELSE "notIssued"]
    /\ wiPromise' = "pending"
    /\ aggregate' = aggregateAfter(fetch', wiPromise', "pending")
    /\ UNCHANGED <<server, supports, storeVars, callVars>>

\* cacheWidgetInstances (metadata.js 69-112) called on its own.
CacheWidgetInstances ==
    /\ aggregate = "none"
    /\ wiPromise = "none"
    /\ cache' = newWidgetInstancesMap(cache)
    /\ fetch' = [fetch EXCEPT !["wi100"] = "inflight", !["wi101"] = "inflight"]
    /\ wiPromise' = "pending"
    /\ UNCHANGED <<server, supports, aggregate, storeVars, callVars>>

\* A response arrives: the request's callback runs, and the promises that
\* depend on it settle in the same turn.
FetchSucceeds(f) ==
    /\ fetch[f] = "inflight"
    /\ cache' = onFetched(cache, f, server)
    /\ fetch' = [fetch EXCEPT ![f] = "ok"]
    /\ wiPromise' = wiPromiseAfter(fetch', wiPromise)
    /\ aggregate' = aggregateAfter(fetch', wiPromise', aggregate)
    /\ UNCHANGED <<server, supports, storeVars, callVars>>

\* A request fails: its callback does not run.
FetchFails(f) ==
    /\ fetch[f] = "inflight"
    /\ fetch' = [fetch EXCEPT ![f] = "failed"]
    /\ wiPromise' = wiPromiseAfter(fetch', wiPromise)
    /\ aggregate' = aggregateAfter(fetch', wiPromise', aggregate)
    /\ UNCHANGED <<server, supports, cache, storeVars, callVars>>

Init ==
    /\ server \in SessionServers
    /\ supports \in BOOLEAN
    /\ IdleCache
    /\ IdleStore
    /\ IdleCalls

Next ==
    \/ InitializeMetadata
    \/ \E f \in FetchIds : FetchSucceeds(f)
    \/ \E f \in FetchIds : FetchFails(f)

Spec == Init /\ [][Next]_vars

InitWI ==
    /\ server \in PartitionServers
    /\ supports = TRUE
    /\ IdleCache
    /\ IdleStore
    /\ IdleCalls

NextWI ==
    \/ CacheWidgetInstances
    \/ \E f \in {"wi100", "wi101"} : FetchSucceeds(f)
    \/ \E f \in {"wi100", "wi101"} : FetchFails(f)

SpecWI == InitWI /\ [][NextWI]_vars


(***************************************************************************)
(* JSON text.  JSON.stringify(value, null, 2) writes null as the word      *)
(* null, an object without fields as {}, and any other object as an        *)
(* opening brace, one indented "key": value line per field separated by    *)
(* commas, and a closing brace on a line of its own.  The text is a        *)
(* sequence of tokens; the fields of an object are written in KeyOrder.    *)
(***************************************************************************)
Null == [null |-> TRUE]

KeyOrder ==
    <<"repositoryId", "displayName", "name", "version", "widgetType",
      "stackType", "elementized", "tag", "node", "descriptorRepositoryId",
      "layoutInstanceId", "layoutDescriptorId", "widgetId", "etag">>

Tok(t) == [t |-> t]

FieldTok(k, v) == [t |-> "field", key |-> k, value |-> v]

RECURSIVE FieldLines(_, _, _)
FieldLines(obj, i, first) ==
    IF i > Len(KeyOrder) THEN << >>
    ELSE IF KeyOrder[i] \notin DOMAIN obj THEN FieldLines(obj, i + 1, first)
    ELSE (IF first THEN << >> ELSE <<Tok(",")>>)
         \o <<Tok("\n"), Tok("  "), FieldTok(KeyOrder[i], obj[KeyOrder[i]])>>
         \o FieldLines(obj, i + 1, FALSE)

JSONstringify(value) ==
    IF value = Null THEN <<Tok("null")>>
    ELSE IF DOMAIN value = {} THEN <<Tok("{"), Tok("}")>>
    ELSE <<Tok("{")>> \o FieldLines(value, 1, TRUE)
         \o <<Tok("\n"), Tok("}")>>

\* JSON.parse: white space is skipped; the fields found between the braces
\* make the object.
JSONparse(text) ==
    LET toks == SelectSeq(text, LAMBDA x : x.t \notin {"\n", "  "})
        fields == SelectSeq(toks, LAMBDA x : x.t = "field")
    IN  IF toks = <<Tok("null")>> THEN Null
        ELSE [k \in {fields[i].key : i \in DOMAIN fields} |->
                 LET i == CHOOSE j \in DOMAIN fields :
                              /\ fields[j].key = k
                              /\ \A l \in DOMAIN fields :
                                    fields[l].key = k => l <= j
                 IN  fields[i].value]

(***************************************************************************)
(* Paths.  A path is the sequence of its segments; a path handed to the    *)
(* metadata functions is relative to the base directory, which holds the   *)
(* tracking directory.                                                     *)
(***************************************************************************)
BaseDir == "base"

trackingDir == ".ccc"

configMetadataJson == "config.json"

elementMetadataJson == "element.json"

themeMetadataJson == "theme.json"

stackMetadataJson == "stack.json"

stackInstanceMetadataJson == "stackInstance.json"

widgetMetadataJson == "widget.json"

widgetInstanceMetadataJson == "widgetInstance.json"

MetadataTypes ==
    {configMetadataJson, elementMetadataJson, themeMetadataJson,
     stackMetadataJson, stackInstanceMetadataJson, widgetMetadataJson,
     widgetInstanceMetadataJson}

\* utils.splitFromBaseDir: <<base directory, path below it>>.
splitFromBaseDir(path) == <<BaseDir, path>>

\* String.prototype.split("/"): the empty string splits into one empty
\* segment.
Split(subDir) == IF subDir = << >> THEN <<"">> ELSE subDir

\* Array.prototype.indexOf: the first position, from 0, or -1.
IndexOf(tokens, x) ==
    IF \E i \in DOMAIN tokens : tokens[i] = x
    THEN (CHOOSE i \in DOMAIN tokens :
              /\ tokens[i] = x
              /\ \A j \in DOMAIN tokens : tokens[j] = x => i <= j) - 1
    ELSE -1

\* Array.prototype.slice(0, n) for n >= 0.
SliceTo(tokens, n) ==
    SubSeq(tokens, 1, IF n < Len(tokens) THEN n ELSE Len(tokens))

Undefined == "undefined"

\* getMetadataPath (metadata.js 225-257)
getMetadataPath(path, type) ==
    LET splitDirs == splitFromBaseDir(path)
        baseDir == splitDirs[1]
        subDir == splitDirs[2]
        tokens == Split(subDir)
        anchored(token) ==
            <<baseDir, trackingDir>>
            \o SliceTo(tokens, IndexOf(tokens, token) + 2) \o <<type>>
    IN  CASE type = configMetadataJson -> <<baseDir, trackingDir, type>>
          [] type \in {elementMetadataJson, themeMetadataJson} ->
                <<baseDir, trackingDir>> \o Split(subDir) \o <<type>>
          [] type = stackMetadataJson -> anchored("stack")
          [] type = stackInstanceMetadataJson -> anchored("instances")
          [] type = widgetMetadataJson -> anchored("widget")
          [] type = widgetInstanceMetadataJson -> anchored("instances")
          [] OTHER -> <<Undefined>>

\* utils.exists, utils.readJsonFile, utils.writeFile, etags.eTagFor
exists(fs, path) == path \in DOMAIN fs

readJsonFile(fs, path) == JSONparse(fs[path])

\* A path that already starts at the base directory is used as it is.
resolvePath(path) ==
    IF path # << >> /\ path[1] = BaseDir THEN path ELSE <<BaseDir>> \o path

writeFile(fs, path, text) == MapSet(fs, resolvePath(path), text)

eTagFor(tags, path) == IF path \in DOMAIN tags THEN tags[path] ELSE Undefined

WithField(obj, f, v) ==
    [x \in (DOMAIN obj) \cup {f} |-> IF x = f THEN v ELSE obj[x]]

Value(v) == [kind |-> "value", value |-> v]

ReturnsNull == [kind |-> "null"]

Throws == [kind |-> "throw"]

\* readMetadataFromDisk (metadata.js 602-622).  Setting a property of null
\* throws a TypeError.
readMetadataFromDiskAlwaysEtag(fs, tags, path, type, excludeEtag) ==
    LET metadataPath == getMetadataPath(path, type)
    IN  IF exists(fs, metadataPath)
        THEN LET json == readJsonFile(fs, metadataPath)
             IN  IF json = Null THEN Throws
                 ELSE Value(WithField(json, "etag", eTagFor(tags, path)))
        ELSE ReturnsNull

readMetadataFromDisk(fs, tags, path, type, excludeEtag) ==
    LET metadataPath == getMetadataPath(path, type)
    IN  IF exists(fs, metadataPath)
        THEN LET json == readJsonFile(fs, metadataPath)
             IN  IF excludeEtag THEN (IF json = Null THEN ReturnsNull
                                      ELSE Value(json))
                 ELSE IF json = Null THEN Throws
                 ELSE Value(WithField(json, "etag", eTagFor(tags, path)))
        ELSE ReturnsNull

\* writeMetadata (metadata.js 629-631)
writeMetadataText(content) == JSONstringify(content) \o <<Tok("\n")>>

writeMetadataPath(path) == <<trackingDir>> \o path

\* Object.keys(additionalMetadata).forEach(key => existingMetadata[key] = ...)
\* (metadata.js 702-704) on an object.
assignKeys(existingMetadata, additionalMetadata) ==
    [k \in (DOMAIN existingMetadata) \cup (DOMAIN additionalMetadata) |->
        IF k \in DOMAIN additionalMetadata THEN additionalMetadata[k]
        ELSE existingMetadata[k]]

\* updateMetadata (metadata.js 696-708): what it returns and the files it
\* leaves.  Setting a property of null throws a TypeError before anything
\* is written; with no key to set, null itself is written out.
updateMetadataKeepingEtag(fs, tags, path, type, additionalMetadata) ==
    LET existingMetadata == readMetadataFromDisk(fs, tags, path, type, FALSE)
        metadataPath == getMetadataPath(path, type)
    IN  IF existingMetadata.kind = "value"
        THEN [ret |-> [kind |-> "undefined"],
              fs |-> writeFile(fs, metadataPath,
                        JSONstringify(assignKeys(existingMetadata.value,
                                                 additionalMetadata)))]
        ELSE IF DOMAIN additionalMetadata # {}
        THEN [ret |-> Throws, fs |-> fs]
        ELSE [ret |-> [kind |-> "undefined"],
              fs |-> writeFile(fs, metadataPath, JSONstringify(Null))]

updateMetadata(fs, tags, path, type, additionalMetadata) ==
    LET existingMetadata == readMetadataFromDisk(fs, tags, path, type, TRUE)
        metadataPath == getMetadataPath(path, type)
    IN  IF existingMetadata.kind = "value"
        THEN [ret |-> [kind |-> "undefined"],
              fs |-> writeFile(fs, metadataPath,
                        JSONstringify(assignKeys(existingMetadata.value,
                                                 additionalMetadata)))]
        ELSE IF DOMAIN additionalMetadata # {}
        THEN [ret |-> Throws, fs |-> fs]
        ELSE [ret |-> [kind |-> "undefined"],
              fs |-> writeFile(fs, metadataPath, JSONstringify(Null))]

(***************************************************************************)
(* Key construction on its own: two (name, version) pairs are keyed and    *)
(* stored in a Map.  Display names are free text, so the names tried here  *)
(* are built from pieces that resemble the literal parts of the key and    *)
(* the digits of a version.                                                *)
(***************************************************************************)
NamePieces == {"A", "1", " Version: 1"}

RECURSIVE NamesOfParts(_)
NamesOfParts(k) ==
    IF k = 0 THEN {""}
    ELSE NamesOfParts(k - 1) \cup
         { n \o p : n \in NamesOfParts(k - 1), p \in NamePieces }

KeyNames == NamesOfParts(MaxNameParts)

\* Versions of one and of two digits, the digits up to MaxKeyDigit.
KeyVersions ==
    (0 .. MaxKeyDigit)
    \cup { 10 * d + e : d \in 1 .. MaxKeyDigit, e \in 0 .. MaxKeyDigit }

KeyPairs == [name : KeyNames, version : KeyVersions]

MakeKeys(a, b) ==
    /\ call' = [op |-> "makeWidgetInstanceKey", a |-> a, b |-> b]
    /\ LET ka == makeWidgetInstanceKey(a.name, a.version)
           kb == makeWidgetInstanceKey(b.name, b.version)
       IN  result' = [kind |-> "keys", ka |-> ka, kb |-> kb,
                      map |-> MapSet(MapSet(EmptyMap, ka, "first"),
                                     kb, "second")]
    /\ UNCHANGED <<cacheVars, storeVars, transfer, log>>

InitKey ==
    /\ server = FixedServer(NoItems, NoItems)
    /\ supports = TRUE
    /\ IdleCache
    /\ IdleStore
    /\ IdleCalls

NextKey ==
    /\ call = NoCall
    /\ \E a \in KeyPairs, b \in KeyPairs : MakeKeys(a, b)

SpecKey == InitKey /\ [][NextKey]_vars

\* C4: makeWidgetInstanceKey is injective: the keys of two (name, version)
\* pairs are equal exactly when the names and the versions are equal, so
\* two instances share a Map entry exactly when they agree on both.
C4_KeyInjective ==
    call.op = "makeWidgetInstanceKey" =>
        /\ (result.ka = result.kb) <=> (call.a = call.b)
        /\ (Cardinality(DOMAIN result.map) = 1) <=> (call.a = call.b)
        /\ (Cardinality(DOMAIN result.map) = 2) <=> (call.a # call.b)

C4_Witness ==
    /\ call.op = "makeWidgetInstanceKey"
    /\ call.a = [name |-> "A1", version |-> 0]
    /\ call.b = [name |-> "A", version |-> 10]
    /\ result.ka # result.kb
    /\ Cardinality(DOMAIN result.map) = 2

(***************************************************************************)
(* The assets the model works on.                                          *)
(***************************************************************************)
WidgetFile == <<"widget", "W", "display.template">>

WidgetInstanceFile == <<"widget", "W", "instances", "I", "display.template">>

GlobalElementDir == <<"element", "E">>

\* The location of an asset's tracking file relative to the tracking
\* directory, as the callers of writeMetadata pass it.
TrackingLocation(asset) ==
    LET full == getMetadataPath(asset[1], asset[2])
    IN  SubSeq(full, 3, Len(full))

(***************************************************************************)
(* Matching a local asset with its counterpart in the cache.  A matcher    *)
(* yields what it returns (a value, null, undefined, or a TypeError        *)
(* thrown on the way) and the messages it logged.                          *)
(***************************************************************************)
ReturnsUndefined == [kind |-> "undefined"]

Info(key) == [level |-> "info", key |-> key]

Warn(key) == [level |-> "warn", key |-> key]

Outcome(ret, messages) == [ret |-> ret, log |-> messages]

\* Array.prototype.find with a callback that may throw: the elements are
\* tried in order up to the first one for which the callback returns true
\* or throws.  verdict[i] is what the callback does on seq[i].
Find(seq, verdict) ==
    LET hits == {i \in DOMAIN seq : verdict[i] # "false"}
    IN  IF hits = {} THEN [found |-> "no"]
        ELSE LET i == CHOOSE j \in hits : \A k \in hits : j <= k
             IN  IF verdict[i] = "true"
                 THEN [found |-> "yes", item |-> seq[i]]
                 ELSE [found |-> "throw"]

FindLast(seq, verdict) ==
    LET hits == {i \in DOMAIN seq : verdict[i] # "false"}
    IN  IF hits = {} THEN [found |-> "no"]
        ELSE LET i == CHOOSE j \in hits : \A k \in hits : j >= k
             IN  IF verdict[i] = "true"
                 THEN [found |-> "yes", item |-> seq[i]]
                 ELSE [found |-> "throw"]

\* The callback of metadata.js 355-356 and 380-381: reading a property of
\* null metadata throws.
sameVersionAndDisplayName(widget, md) ==
    IF md.kind # "value" THEN "throw"
    ELSE IF /\ widget.version = md.value.version
            /\ widget.displayName = md.value.displayName
         THEN "true" ELSE "false"

findWidgetLast(c, md) ==
    FindLast(c.widgetDescriptors,
             [i \in DOMAIN c.widgetDescriptors |->
                 sameVersionAndDisplayName(c.widgetDescriptors[i], md)])

findWidget(c, md) ==
    Find(c.widgetDescriptors,
         [i \in DOMAIN c.widgetDescriptors |->
             sameVersionAndDisplayName(c.widgetDescriptors[i], md)])

\* getMatchingWidget (metadata.js 374-397)
getMatchingWidget(c, fs, tags, path) ==
    LET metadata == readMetadataFromDisk(fs, tags, path, widgetMetadataJson,
                                         FALSE)
        matchingWidget == findWidget(c, metadata)
    IN  IF metadata.kind = "throw" \/ matchingWidget.found = "throw"
        THEN Outcome(Throws, << >>)
        ELSE IF matchingWidget.found = "yes"
        THEN Outcome(
                Value([repositoryId |-> matchingWidget.item.repositoryId,
                       widgetType |-> matchingWidget.item.widgetType,
                       elementized |-> Len(matchingWidget.item.layouts) # 0]),
                <<Info("matchingWidgetFound")>>)
        ELSE Outcome(ReturnsNull, <<Warn("noMatchingWidgetFound")>>)

\* getCachedWidgetInstanceFromMetadata (metadata.js 312-318)
getCachedWidgetInstanceFromMetadataByName(c, metadata) ==
    IF metadata.kind # "value" THEN ReturnsNull
    ELSE IF \E k \in DOMAIN c.widgetInstances :
                c.widgetInstances[k].displayName = metadata.value.displayName
         THEN Value(c.widgetInstances[
                  CHOOSE k \in DOMAIN c.widgetInstances :
                      c.widgetInstances[k].displayName
                          = metadata.value.displayName])
         ELSE ReturnsUndefined

getCachedWidgetInstanceFromMetadata(c, metadata) ==
    IF metadata.kind # "value" THEN ReturnsNull
    ELSE LET key == makeWidgetInstanceKey(metadata.value.displayName,
                                          metadata.value.version)
         IN  IF MapHas(c.widgetInstances, key)
             THEN Value(c.widgetInstances[key])
             ELSE ReturnsUndefined

\* metadata.js 336-341
instanceReference(instance, local) ==
    [repositoryId |-> instance.repositoryId,
     descriptorRepositoryId |-> instance.descriptor.repositoryId,
     version |-> instance.version,
     displayName |-> instance.displayName]

\* metadata.js 344-360: the layout fields.  Without a currentLayout the
\* widget's own tracking record is read, and for an elementized widget
\* the first layout of the matching descriptor is used; a missing widget
\* record, a missing descriptor or a descriptor without layouts makes the
\* property access throw.
withLayoutFields(c, fs, tags, path, instance, reference) ==
    IF "currentLayout" \in DOMAIN instance
    THEN Value(WithField(
                 WithField(reference, "layoutInstanceId",
                           instance.currentLayout.repositoryId),
                 "layoutDescriptorId",
                 instance.currentLayout.widgetLayoutDescriptor.repositoryId))
    ELSE LET widgetMetadata ==
                 readMetadataFromDisk(fs, tags, path, widgetMetadataJson,
                                      FALSE)
             matchingWidget == findWidget(c, widgetMetadata)
         IN  IF widgetMetadata.kind # "value" THEN Throws
             ELSE IF ~("elementized" \in DOMAIN widgetMetadata.value
                       /\ widgetMetadata.value.elementized)
             THEN Value(reference)
             ELSE IF matchingWidget.found # "yes" THEN Throws
             ELSE IF matchingWidget.item.layouts = << >> THEN Throws
             ELSE Value(WithField(reference, "layoutDescriptorId",
                          matchingWidget.item.layouts[1].repositoryId))

\* getMatchingWidgetInstance (metadata.js 324-368)
getMatchingWidgetInstance(c, fs, tags, path) ==
    LET widgetInstanceMetadata ==
            readMetadataFromDisk(fs, tags, path, widgetInstanceMetadataJson,
                                 FALSE)
        matchingWidgetInstance ==
            getCachedWidgetInstanceFromMetadata(c, widgetInstanceMetadata)
    IN  IF widgetInstanceMetadata.kind = "throw" THEN Outcome(Throws, << >>)
        ELSE IF matchingWidgetInstance.kind = "value"
        THEN Outcome(
                withLayoutFields(c, fs, tags, path,
                    matchingWidgetInstance.value,
                    instanceReference(matchingWidgetInstance.value,
                                      widgetInstanceMetadata.value)),
                <<Info("matchingWidgetInstanceFound")>>)
        ELSE Outcome(ReturnsNull, <<Warn("noMatchingWidgetInstanceFound")>>)

\* widgetInstanceExistsOnTarget (metadata.js 763-770)
widgetInstanceExistsOnTarget(c, fs, tags, path) ==
    LET metadata ==
            readMetadataFromDisk(fs, tags, path, widgetInstanceMetadataJson,
                                 FALSE)
    IN  IF metadata.kind = "throw" THEN Outcome(Throws, << >>)
        ELSE Outcome(getCachedWidgetInstanceFromMetadata(c, metadata), << >>)

Truthy(ret) == ret.kind = "value"

(***************************************************************************)
(* A session whose cache has been populated: every issued fetch has        *)
(* succeeded, the two widget instance partitions in either order.          *)
(***************************************************************************)
RECURSIVE ApplyAll(_, _, _, _)
ApplyAll(c, order, srv, sup) ==
    IF order = << >> THEN c
    ELSE ApplyAll(IF issuedByInitialize(Head(order), sup)
                  THEN onFetched(c, Head(order), srv) ELSE c,
                  Tail(order), srv, sup)

CompletionOrders ==
    {<<"wi100", "wi101", "wd", "we", "ge", "si", "sd", "th">>,
     <<"wi101", "wi100", "wd", "we", "ge", "si", "sd", "th">>}

Populated(srv, sup, order) == ApplyAll(createMaps(EmptyMap), order, srv, sup)

PopulatedSession(order) ==
    /\ cache = Populated(server, supports, order)
    /\ fetch = [f \in FetchIds |->
                   IF issuedByInitialize(f, supports)
                   THEN "ok" ELSE "notIssued"]
    /\ wiPromise = "fulfilled"
    /\ aggregate = "resolved"

\* The tracking file of an asset as a grab left it.
TrackingFile(path, type, content) ==
    writeFile(EmptyMap,
              writeMetadataPath(TrackingLocation(<<path, type>>)),
              writeMetadataText(content))

Merge(f, g) ==
    [x \in (DOMAIN f) \cup (DOMAIN g) |-> IF x \in DOMAIN g THEN g[x] ELSE f[x]]

MatchEtags ==
    [p \in {WidgetFile, WidgetInstanceFile} |-> "etag1"]

LayoutsOf(i, n) ==
    [j \in 1 .. n |-> [repositoryId |-> "L" \o ToString(i) \o ToString(j)]]

WidgetTypes == {"t1", "t2"}

DescriptorChoices == Names \X Versions \X WidgetTypes \X {0, 2}

DescriptorLists ==
    UNION {
        { [i \in 1 .. k |->
              Descriptor("W" \o ToString(i), d[i][1], d[i][2], d[i][3],
                         LayoutsOf(i, d[i][4]))]
          : d \in [1 .. k -> DescriptorChoices] }
        : k \in 0 .. MaxDescriptors }

LocalWidgetRecords ==
    { [displayName |-> "A", version |-> v, widgetType |-> "t1",
       elementized |-> e] : v \in Versions, e \in BOOLEAN }

LocalWidgetFiles ==
    {EmptyMap} \cup
    { TrackingFile(WidgetFile, widgetMetadataJson, r)
      : r \in LocalWidgetRecords }

(***************************************************************************)
(* Matching widgets.                                                       *)
(***************************************************************************)
\* The callback of metadata.js 564-565.
sameVersionAndType(widget, md) ==
    IF md.kind # "value" THEN "throw"
    ELSE IF /\ widget.version = md.value.version
            /\ widget.widgetType = md.value.widgetType
         THEN "true" ELSE "false"

\* widgetExistsOnTarget (metadata.js 558-566): the descriptor found, or
\* undefined.
widgetExistsOnTarget(c, fs, tags, path) ==
    LET metadata == readMetadataFromDisk(fs, tags, path, widgetMetadataJson,
                                         FALSE)
        found == Find(c.widgetDescriptors,
                      [i \in DOMAIN c.widgetDescriptors |->
                          sameVersionAndType(c.widgetDescriptors[i],
                                             metadata)])
    IN  IF found.found = "throw" THEN Outcome(Throws, << >>)
        ELSE IF found.found = "yes" THEN Outcome(Value(found.item), << >>)
        ELSE Outcome(ReturnsUndefined, << >>)

CallWidgetExistsOnTarget(path) ==
    /\ call' = [op |-> "widgetExistsOnTarget", path |-> path]
    /\ LET outcome == widgetExistsOnTarget(cache, files, etags, path)
       IN  /\ result' = outcome.ret
           /\ log' = outcome.log
    /\ UNCHANGED <<cacheVars, storeVars, transfer>>

CallGetMatchingWidget(path) ==
    /\ call' = [op |-> "getMatchingWidget", path |-> path]
    /\ LET outcome == getMatchingWidget(cache, files, etags, path)
       IN  /\ result' = outcome.ret
           /\ log' = outcome.log
    /\ UNCHANGED <<cacheVars, storeVars, transfer>>

InitWidget ==
    /\ \E wd \in DescriptorLists :
          server = [FixedServer(NoItems, NoItems) EXCEPT !.wd = wd]
    /\ supports = TRUE
    /\ \E order \in CompletionOrders : PopulatedSession(order)
    /\ files \in LocalWidgetFiles
    /\ etags = MatchEtags
    /\ written = EmptyMap
    /\ transfer \in BOOLEAN
    /\ call = NoCall
    /\ result = NoResult
    /\ log = << >>

NextWidget ==
    \/ \E path \in {WidgetFile, WidgetInstanceFile} :
          CallGetMatchingWidget(path)
    \/ CallWidgetExistsOnTarget(WidgetFile)

SpecWidget == InitWidget /\ [][NextWidget]_vars

LocalRecord(path, type) == readJsonFile(files, getMetadataPath(path, type))

HasLocalRecord(path, type) == exists(files, getMetadataPath(path, type))

SameVersionAndName(d, local) ==
    d.version = local.version /\ d.displayName = local.displayName

\* C1: for an existing local widget record, getMatchingWidget returns a
\* reference exactly when some cached descriptor has the record's version
\* and displayName; the reference carries the repositoryId and widgetType
\* of the first such descriptor of the list, with elementized true exactly
\* when that descriptor has at least one layout; otherwise it returns null.
C1_WidgetMatch ==
    (call.op = "getMatchingWidget"
     /\ HasLocalRecord(call.path, widgetMetadataJson))
    => LET local == LocalRecord(call.path, widgetMetadataJson)
           ds == cache.widgetDescriptors
           hits == {i \in DOMAIN ds : SameVersionAndName(ds[i], local)}
       IN  /\ (result.kind = "value") <=> (hits # {})
           /\ hits = {} => result = ReturnsNull
           /\ \A i \in hits :
                 (\A j \in hits : i <= j) =>
                    /\ DOMAIN result.value
                          = {"repositoryId", "widgetType", "elementized"}
                    /\ result.value.repositoryId = ds[i].repositoryId
                    /\ result.value.widgetType = ds[i].widgetType
                    /\ result.value.elementized <=> (Len(ds[i].layouts) >= 1)

\* C17: for an existing local widget record, widgetExistsOnTarget is truthy
\* exactly when getMatchingWidget returns a reference.
C17_ExistsIffMatches ==
    (/\ call.op = "widgetExistsOnTarget"
     /\ HasLocalRecord(call.path, widgetMetadataJson))
    => (Truthy(result)
        <=> getMatchingWidget(cache, files, etags, call.path).ret.kind
               = "value")

C1_Witness ==
    /\ call.op = "getMatchingWidget"
    /\ HasLocalRecord(call.path, widgetMetadataJson)
    /\ Len(cache.widgetDescriptors) = 2
    /\ \A i \in {1, 2} :
          SameVersionAndName(cache.widgetDescriptors[i],
                             LocalRecord(call.path, widgetMetadataJson))
    /\ cache.widgetDescriptors[1].widgetType = "t2"
    /\ cache.widgetDescriptors[2].widgetType = "t1"
    /\ cache.widgetDescriptors[2].layouts = << >>
    /\ result = Value([repositoryId |-> "W1", widgetType |-> "t2",
                       elementized |-> TRUE])

(***************************************************************************)
(* Matching widget instances.                                              *)
(***************************************************************************)
\* What one source partition returns here: no items, or one widget with at
\* most one instance, which may have a currentLayout.
InstanceChoices(src, names) ==
    { ServerInstance("I" \o src, n, v) : n \in names, v \in Versions }
    \cup
    { ServerInstanceWithLayout("I" \o src, n, v, 1)
      : n \in names, v \in Versions }

LayoutPartition(src, names) ==
    {NoItems, Items(<<ServerWidget("W" \o src, "A", 1, "t" \o src, << >>)>>)}
    \cup
    { Items(<<ServerWidget("W" \o src, "A", 1, "t" \o src, <<i>>)>>)
      : i \in InstanceChoices(src, names) }

ShortDescriptorLists ==
    { ds \in DescriptorLists :
        /\ Len(ds) <= 1
        /\ \A i \in DOMAIN ds : ds[i].widgetType = "t1" }

LocalInstanceFiles ==
    {EmptyMap} \cup
    { TrackingFile(WidgetInstanceFile, widgetInstanceMetadataJson,
                   [displayName |-> "A", version |-> v])
      : v \in Versions }

CallGetMatchingWidgetInstance(path) ==
    /\ call' = [op |-> "getMatchingWidgetInstance", path |-> path]
    /\ LET outcome == getMatchingWidgetInstance(cache, files, etags, path)
       IN  /\ result' = outcome.ret
           /\ log' = outcome.log
    /\ UNCHANGED <<cacheVars, storeVars, transfer>>

CallWidgetInstanceExistsOnTarget(path) ==
    /\ call' = [op |-> "widgetInstanceExistsOnTarget", path |-> path]
    /\ LET outcome == widgetInstanceExistsOnTarget(cache, files, etags, path)
       IN  /\ result' = outcome.ret
           /\ log' = outcome.log
    /\ UNCHANGED <<cacheVars, storeVars, transfer>>

InitInstance ==
    /\ \E p100 \in LayoutPartition("100", Names),
          p101 \in LayoutPartition("101", {"A"}),
          wd \in ShortDescriptorLists :
          server = [FixedServer(p100, p101) EXCEPT !.wd = wd]
    /\ supports = TRUE
    /\ \E order \in CompletionOrders : PopulatedSession(order)
    /\ \E fi \in LocalInstanceFiles, fw \in LocalWidgetFiles :
          files = Merge(fi, fw)
    /\ etags = MatchEtags
    /\ written = EmptyMap
    /\ transfer \in BOOLEAN
    /\ call = NoCall
    /\ result = NoResult
    /\ log = << >>

NextInstance ==
    \/ CallGetMatchingWidgetInstance(WidgetInstanceFile)
    \/ CallWidgetInstanceExistsOnTarget(WidgetInstanceFile)

SpecInstance == InitInstance /\ [][NextInstance]_vars

LocalInstanceKey(path) ==
    makeWidgetInstanceKey(
        LocalRecord(path, widgetInstanceMetadataJson).displayName,
        LocalRecord(path, widgetInstanceMetadataJson).version)

C3_InstanceReference ==
    (/\ call.op = "getMatchingWidgetInstance"
     /\ HasLocalRecord(call.path, widgetInstanceMetadataJson)
     /\ MapHas(cache.widgetInstances, LocalInstanceKey(call.path)))
    => LET instance == cache.widgetInstances[LocalInstanceKey(call.path)]
       IN  /\ result.kind = "value"
           /\ result.value.repositoryId = instance.repositoryId
           /\ result.value.descriptorRepositoryId
                 = instance.descriptor.repositoryId
           /\ result.value.version = instance.version
           /\ result.value.displayName = instance.displayName
           /\ ("layoutInstanceId" \in DOMAIN result.value)
                 <=> ("currentLayout" \in DOMAIN instance)
           /\ "currentLayout" \in DOMAIN instance =>
                 /\ result.value.layoutInstanceId
                       = instance.currentLayout.repositoryId
                 /\ result.value.layoutDescriptorId
                       = instance.currentLayout.widgetLayoutDescriptor
                            .repositoryId

\* The descriptors of the cache with the version and displayName of the
\* local widget record of the last call's asset.
LocalWidgetHits ==
    LET local == LocalRecord(call.path, widgetMetadataJson)
        ds == cache.widgetDescriptors
    IN  {i \in DOMAIN ds : SameVersionAndName(ds[i], local)}

\* C15: when the instance found in the cache has no currentLayout and the
\* local widget record says elementized, getMatchingWidgetInstance still
\* returns the instance reference whatever widgetDescriptors holds, with
\* layoutDescriptorId the repositoryId of the first layout of the descriptor
\* matching the local widget's version and displayName when that descriptor
\* has a layout, and without failing when there is no such descriptor or
\* layout.
C15_FallbackNeverFails ==
    (/\ call.op = "getMatchingWidgetInstance"
     /\ HasLocalRecord(call.path, widgetInstanceMetadataJson)
     /\ MapHas(cache.widgetInstances, LocalInstanceKey(call.path))
     /\ "currentLayout" \notin
           DOMAIN cache.widgetInstances[LocalInstanceKey(call.path)]
     /\ HasLocalRecord(call.path, widgetMetadataJson)
     /\ LocalRecord(call.path, widgetMetadataJson).elementized)
    => /\ result.kind = "value"
       /\ result.value.repositoryId
             = cache.widgetInstances[LocalInstanceKey(call.path)].repositoryId
       /\ \A i \in LocalWidgetHits :
             (/\ \A j \in LocalWidgetHits : i <= j
              /\ cache.widgetDescriptors[i].layouts # << >>)
             => result.value.layoutDescriptorId
                   = cache.widgetDescriptors[i].layouts[1].repositoryId

\* The tracking files with the elementized flag of the local widget record
\* of the last call's asset inverted.
FilesWithFlagInverted ==
    LET local == LocalRecord(call.path, widgetMetadataJson)
    IN  writeFile(files, getMetadataPath(call.path, widgetMetadataJson),
                  writeMetadataText(
                      [local EXCEPT !.elementized = ~local.elementized]))

\* C16: what getMatchingWidgetInstance returns does not depend on the
\* elementized flag of the local widget record: with the same cache and the
\* same other local fields, the run with the flag inverted returns the same.
C16_LocalFlagIgnored ==
    (/\ call.op = "getMatchingWidgetInstance"
     /\ HasLocalRecord(call.path, widgetMetadataJson))
    => result = getMatchingWidgetInstance(cache, FilesWithFlagInverted,
                                          etags, call.path).ret

(***************************************************************************)
(* Matching elements.                                                      *)
(***************************************************************************)
\* puttingFileType.js is not among the sources either: the kinds are those
\* of section 3 of the specification, named as the classifier test names
\* them.  Each kind belongs to the family of a top-level directory; a kind
\* of a widget or of a stack that exists for the base and for an instance
\* is the base or the instance variant of one part of the asset.
Kind(root, variant, part) ==
    [root |-> root, variant |-> variant, part |-> part]

PuttingFileType ==
    [WIDGETS_DIRECTORY |-> Kind("widget", "none", "directory"),
     WIDGET |-> Kind("widget", "base", "asset"),
     WIDGET_INSTANCE |-> Kind("widget", "instance", "asset"),
     WIDGET_BASE_TEMPLATE |-> Kind("widget", "base", "template"),
     WIDGET_INSTANCE_TEMPLATE |-> Kind("widget", "instance", "template"),
     WIDGET_BASE_LESS |-> Kind("widget", "base", "less"),
     WIDGET_INSTANCE_LESS |-> Kind("widget", "instance", "less"),
     WIDGET_BASE_SNIPPETS |-> Kind("widget", "base", "snippets"),
     WIDGET_INSTANCE_SNIPPETS |-> Kind("widget", "instance", "snippets"),
     WIDGET_METADATA_JSON |-> Kind("widget", "base", "metadata"),
     WIDGET_INSTANCE_METADATA_JSON
         |-> Kind("widget", "instance", "metadata"),
     WIDGET_CONFIG_SNIPPETS |-> Kind("widget", "none", "config snippets"),
     WIDGET_CONFIG_JSON |-> Kind("widget", "none", "config"),
     WIDGET_JAVASCRIPT |-> Kind("widget", "none", "javascript"),
     WIDGET_MODULE_JAVASCRIPT
         |-> Kind("widget", "none", "module javascript"),
     WEB_CONTENT_TEMPLATE |-> Kind("widget", "none", "web content"),
     WIDGET_ELEMENT |-> Kind("widget", "none", "element"),
     ELEMENT_TEMPLATE |-> Kind("widget", "none", "element template"),
     ELEMENT_JAVASCRIPT |-> Kind("widget", "none", "element javascript"),
     ELEMENT_METADATA |-> Kind("widget", "none", "element metadata"),
     ELEMENT_INSTANCE_METADATA
         |-> Kind("widget", "none", "element instances"),
     STACKS_DIRECTORY |-> Kind("stack", "none", "directory"),
     STACK |-> Kind("stack", "base", "asset"),
     STACK_INSTANCE |-> Kind("stack", "instance", "asset"),
     STACK_BASE_TEMPLATE |-> Kind("stack", "base", "template"),
     STACK_INSTANCE_TEMPLATE |-> Kind("stack", "instance", "template"),
     STACK_BASE_LESS |-> Kind("stack", "base", "less"),
     STACK_INSTANCE_LESS |-> Kind("stack", "instance", "less"),
     STACK_BASE_VARIABLES_LESS |-> Kind("stack", "base", "variables"),
     STACK_INSTANCE_VARIABLES_LESS
         |-> Kind("stack", "instance", "variables"),
     STACK_BASE_SNIPPETS |-> Kind("stack", "base", "snippets"),
     STACK_INSTANCE_SNIPPETS |-> Kind("stack", "instance", "snippets"),
     STACK_METADATA_JSON |-> Kind("stack", "base", "metadata"),
     STACK_INSTANCE_METADATA_JSON
         |-> Kind("stack", "instance", "metadata"),
     GLOBAL_ELEMENTS_DIRECTORY |-> Kind("element", "none", "directory"),
     GLOBAL_ELEMENT |-> Kind("element", "none", "asset"),
     GLOBAL_ELEMENT_TEMPLATE |-> Kind("element", "none", "template"),
     GLOBAL_ELEMENT_JAVASCRIPT |-> Kind("element", "none", "javascript"),
     GLOBAL_ELEMENT_METADATA |-> Kind("element", "none", "metadata"),
     THEMES_DIRECTORY |-> Kind("theme", "none", "directory"),
     THEME |-> Kind("theme", "none", "asset"),
     THEME_STYLES |-> Kind("theme", "none", "styles"),
     THEME_ADDITIONAL_STYLES |-> Kind("theme", "none", "additional styles"),
     THEME_VARIABLES |-> Kind("theme", "none", "variables"),
     GLOBAL_SNIPPETS_DIRECTORY |-> Kind("snippets", "none", "directory"),
     GLOBAL_SNIPPETS_LOCALE_DIRECTORY
         |-> Kind("snippets", "none", "locale directory"),
     GLOBAL_SNIPPETS |-> Kind("snippets", "none", "snippets"),
     APPLICATION_LEVEL_JAVASCRIPT_DIRECTORY
         |-> Kind("global", "none", "directory"),
     APPLICATION_LEVEL_JAVASCRIPT |-> Kind("global", "none", "javascript")]

\* classifier.js is not among the sources; classify follows section 4.1 of
\* the specification, with the kinds and the file names of the classifier
\* test.  A path is taken relative to the tracked root: an absolute path,
\* whose first segment is empty, loses everything up to and including the
\* root's own name.
Unclassifiable == "unclassifiable"

Families == {"widget", "stack", "element", "theme", "snippets", "global"}

\* relativeToRoot taking the path from its first segment that names a
\* family.
relativeToRootFromFamily(path) ==
    IF \E i \in DOMAIN path : path[i] \in Families
    THEN SubSeq(path,
                CHOOSE i \in DOMAIN path :
                    /\ path[i] \in Families
                    /\ \A j \in DOMAIN path : path[j] \in Families => i <= j,
                Len(path))
    ELSE Split(path)

relativeToRoot(path) ==
    IF path # << >> /\ path[1] = "" /\ IndexOf(path, BaseDir) >= 0
    THEN Split(SubSeq(path, IndexOf(path, BaseDir) + 2, Len(path)))
    ELSE Split(path)

\* String.prototype.endsWith for the two extensions the rules test, over
\* the stems of the file names that occur.
FileStems ==
    {"", "ns.cart", "en", "ns.cart-temp", "en-temp", "snippets", "jim",
     "element", "widgetMetadata", "configMetadata"}

endsWithJson(name) == \E stem \in FileStems : name = stem \o ".json"

endsWithJs(name) == \E stem \in FileStems : name = stem \o ".js"

\* isSnippetFile leaving out the file names marked -temp.
isSnippetFileWithoutTemp(name) ==
    /\ endsWithJson(name)
    /\ ~ \E stem \in FileStems : name = stem \o "-temp.json"

\* Rule 3: *.json under locales/<lang>/.
isSnippetFile(name) == endsWithJson(name)

\* assetDepth taking any instances token in the path for the mark of an
\* instance.
assetDepthByPresence(tokens) ==
    IF IndexOf(tokens, "instances") >= 0 THEN 4 ELSE 2

\* Rule 4: the segments that name the asset are the family root and a
\* name, and for an instance the pair instances/<name> that follows them.
assetDepth(tokens) ==
    IF Len(tokens) >= 4 /\ tokens[3] = "instances" THEN 4 ELSE 2

\* What follows the segments that name the asset.
trailing(tokens) == SubSeq(tokens, assetDepth(tokens) + 1, Len(tokens))

isLocaleFile(rest) ==
    Len(rest) = 3 /\ rest[1] = "locales" /\ isSnippetFile(rest[3])

widgetInstanceRules(rest) ==
    CASE rest = << >> -> "WIDGET_INSTANCE"
      [] rest = <<"display.template">> -> "WIDGET_INSTANCE_TEMPLATE"
      [] rest = <<"content.template">> -> "WEB_CONTENT_TEMPLATE"
      [] rest = <<"widget.less">> -> "WIDGET_INSTANCE_LESS"
      [] rest = <<"widgetInstanceMetadata.json">>
            -> "WIDGET_INSTANCE_METADATA_JSON"
      [] rest = <<"elementInstancesMetadata.json">>
            -> "ELEMENT_INSTANCE_METADATA"
      [] isLocaleFile(rest) -> "WIDGET_INSTANCE_SNIPPETS"
      [] OTHER -> Unclassifiable

widgetElementRules(rest) ==
    CASE Len(rest) = 2 -> "WIDGET_ELEMENT"
      [] Len(rest) = 3 /\ rest[3] = "element.template" -> "ELEMENT_TEMPLATE"
      [] Len(rest) = 3 /\ rest[3] = "element.js" -> "ELEMENT_JAVASCRIPT"
      [] Len(rest) = 3 /\ rest[3] = "elementMetadata.json"
            -> "ELEMENT_METADATA"
      [] OTHER -> Unclassifiable

widgetBaseRules(rest) ==
    CASE rest = << >> -> "WIDGET"
      [] rest = <<"display.template">> -> "WIDGET_BASE_TEMPLATE"
      [] rest = <<"widget.less">> -> "WIDGET_BASE_LESS"
      [] rest = <<"widgetMetadata.json">> -> "WIDGET_METADATA_JSON"
      [] rest = <<"config", "configMetadata.json">> -> "WIDGET_CONFIG_JSON"
      [] Len(rest) = 3 /\ rest[1] = "config" /\ rest[2] = "locales"
                       /\ endsWithJson(rest[3])
            -> "WIDGET_CONFIG_SNIPPETS"
      [] Len(rest) = 3 /\ rest[1] = "module" /\ rest[2] = "js"
            -> "WIDGET_MODULE_JAVASCRIPT"
      [] Len(rest) = 2 /\ rest[1] = "js" -> "WIDGET_JAVASCRIPT"
      [] Len(rest) >= 2 /\ rest[1] = "element" -> widgetElementRules(rest)
      [] isLocaleFile(rest) -> "WIDGET_BASE_SNIPPETS"
      [] OTHER -> Unclassifiable

stackInstanceRules(rest) ==
    CASE rest = << >> -> "STACK_INSTANCE"
      [] rest = <<"stack.template">> -> "STACK_INSTANCE_TEMPLATE"
      [] rest = <<"stack.less">> -> "STACK_INSTANCE_LESS"
      [] rest = <<"stack-variables.less">> -> "STACK_INSTANCE_VARIABLES_LESS"
      [] rest = <<"stackInstanceMetadata.json">>
            -> "STACK_INSTANCE_METADATA_JSON"
      [] isLocaleFile(rest) -> "STACK_INSTANCE_SNIPPETS"
      [] OTHER -> Unclassifiable

stackBaseRules(rest) ==
    CASE rest = << >> -> "STACK"
      [] rest = <<"stack.template">> -> "STACK_BASE_TEMPLATE"
      [] rest = <<"stack.less">> -> "STACK_BASE_LESS"
      [] rest = <<"stack-variables.less">> -> "STACK_BASE_VARIABLES_LESS"
      [] rest = <<"stackMetadata.json">> -> "STACK_METADATA_JSON"
      [] isLocaleFile(rest) -> "STACK_BASE_SNIPPETS"
      [] OTHER -> Unclassifiable

\* The families below hold no instances: rule 5 and the trailing file
\* names of rule 3.
otherRules(tokens) ==
    LET family == tokens[1]
        n == Len(tokens)
    IN  CASE family = "element" /\ n = 2 -> "GLOBAL_ELEMENT"
          [] family = "element" /\ n = 3 /\ tokens[3] = "element.template"
                -> "GLOBAL_ELEMENT_TEMPLATE"
          [] family = "element" /\ n = 3 /\ tokens[3] = "element.js"
                -> "GLOBAL_ELEMENT_JAVASCRIPT"
          [] family = "element" /\ n = 3
                                /\ tokens[3] = "elementMetadata.json"
                -> "GLOBAL_ELEMENT_METADATA"
          [] family = "theme" /\ n = 2 -> "THEME"
          [] family = "theme" /\ n = 3 /\ tokens[3] = "styles.less"
                -> "THEME_STYLES"
          [] family = "theme" /\ n = 3 /\ tokens[3] = "additionalStyles.less"
                -> "THEME_ADDITIONAL_STYLES"
          [] family = "theme" /\ n = 3 /\ tokens[3] = "variables.less"
                -> "THEME_VARIABLES"
          [] family = "snippets" /\ n = 2
                -> "GLOBAL_SNIPPETS_LOCALE_DIRECTORY"
          [] family = "snippets" /\ n = 3 /\ endsWithJson(tokens[3])
                -> "GLOBAL_SNIPPETS"
          [] family = "global" /\ n = 2 /\ endsWithJs(tokens[2])
                -> "APPLICATION_LEVEL_JAVASCRIPT"
          [] OTHER -> Unclassifiable

\* Rule 5: the family root alone is a directory marker.
directoryMarker(family) ==
    CASE family = "widget" -> "WIDGETS_DIRECTORY"
      [] family = "stack" -> "STACKS_DIRECTORY"
      [] family = "element" -> "GLOBAL_ELEMENTS_DIRECTORY"
      [] family = "theme" -> "THEMES_DIRECTORY"
      [] family = "snippets" -> "GLOBAL_SNIPPETS_DIRECTORY"
      [] family = "global" -> "APPLICATION_LEVEL_JAVASCRIPT_DIRECTORY"
      [] OTHER -> Unclassifiable

\* classifier.classify (specification, section 4.1, rules 1 to 6)
classify(path) ==
    LET tokens == relativeToRoot(path)
        family == tokens[1]
        instance == assetDepth(tokens) = 4
        rest == trailing(tokens)
    IN  CASE Len(tokens) = 1 -> directoryMarker(family)
          [] Len(tokens) > 1 /\ family = "widget" ->
                IF instance THEN widgetInstanceRules(rest)
                ELSE widgetBaseRules(rest)
          [] Len(tokens) > 1 /\ family = "stack" ->
                IF instance THEN stackInstanceRules(rest)
                ELSE stackBaseRules(rest)
          [] OTHER -> otherRules(tokens)

(***************************************************************************)
(* The classifier on its own: one path is classified.  The names of the    *)
(* assets are free text, so the names tried include the words the rules    *)
(* look for; a path is given relative to the tracked root or absolute.     *)
(***************************************************************************)
RootNames ==
    {"widget", "stack", "element", "theme", "snippets", "global", "silly",
     ""}

PathNames ==
    {"Cart Summary", "instances", "widget", "element", "locales",
     "display.template"}

TrailingNames ==
    {<< >>, <<"display.template">>, <<"content.template">>,
     <<"widget.less">>, <<"widgetMetadata.json">>,
     <<"widgetInstanceMetadata.json">>, <<"elementInstancesMetadata.json">>,
     <<"locales", "en", "ns.cart.json">>,
     <<"locales", "en", "ns.cart-temp.json">>,
     <<"locales", "en", "en.json">>, <<"locales", "en", "en-temp.json">>,
     <<"locales", "en", "readme.txt">>,
     <<"config", "locales", "en.json">>, <<"config", "configMetadata.json">>,
     <<"js", "jim.js">>, <<"module", "js", "jim.js">>,
     <<"element", "Silly">>, <<"element", "Silly", "element.template">>,
     <<"element", "Silly", "element.js">>,
     <<"element", "Silly", "elementMetadata.json">>,
     <<"stack.template">>, <<"stack.less">>, <<"stack-variables.less">>,
     <<"stackMetadata.json">>, <<"stackInstanceMetadata.json">>,
     <<"element.template">>, <<"element.js">>, <<"elementMetadata.json">>,
     <<"styles.less">>, <<"additionalStyles.less">>, <<"variables.less">>,
     <<"snippets.json">>, <<"instances">>}

RelativePaths ==
    { <<root>> : root \in RootNames }
    \cup { <<root, name>> \o rest :
               root \in RootNames, name \in PathNames,
               rest \in TrailingNames }
    \cup { <<root, name, "instances", instance>> \o rest :
               root \in RootNames, name \in PathNames,
               instance \in PathNames, rest \in TrailingNames }
    \cup { <<"global", "jim.js">>, <<"global", "readme.txt">>,
           <<"snippets", "en">>, <<"snippets", "en", "snippets.json">> }

AbsolutePrefixes == {<<"", "Users", BaseDir>>, <<"", "widget", BaseDir>>}

ClassifyPaths ==
    RelativePaths
    \cup { prefix \o path :
               prefix \in AbsolutePrefixes, path \in RelativePaths }

Classify(path) ==
    /\ call' = [op |-> "classify", path |-> path]
    /\ result' = [kind |-> "fileType", fileType |-> classify(path)]
    /\ UNCHANGED <<cacheVars, storeVars, transfer, log>>

InitClassify ==
    /\ server = FixedServer(NoItems, NoItems)
    /\ supports = TRUE
    /\ IdleCache
    /\ IdleStore
    /\ IdleCalls

NextClassify ==
    /\ call = NoCall
    /\ \E path \in ClassifyPaths : Classify(path)

SpecClassify == InitClassify /\ [][NextClassify]_vars

\* The file names a widget or a stack holds both in its base directory and
\* in the directory of an instance (the empty one stands for the directory
\* itself).
PairedFiles(root) ==
    IF root = "widget"
    THEN {<< >>, <<"display.template">>, <<"widget.less">>,
          <<"locales", "en", "ns.cart.json">>,
          <<"locales", "en", "en-temp.json">>}
    ELSE {<< >>, <<"stack.template">>, <<"stack.less">>,
          <<"stack-variables.less">>, <<"locales", "en", "en.json">>}

IsKind(fileType) == fileType \in DOMAIN PuttingFileType

\* The kinds are the base and the instance variant of one part of an asset
\* of the family.
BaseAndInstance(root, baseType, instanceType) ==
    /\ IsKind(baseType)
    /\ IsKind(instanceType)
    /\ PuttingFileType[baseType].root = root
    /\ PuttingFileType[instanceType].root = root
    /\ PuttingFileType[baseType].variant = "base"
    /\ PuttingFileType[instanceType].variant = "instance"
    /\ PuttingFileType[baseType].part = PuttingFileType[instanceType].part
    /\ baseType # instanceType

TokensBelowRoot(path) ==
    IF Len(path) >= 3 /\ path[1] = "" /\ path[3] = BaseDir
    THEN SubSeq(path, 4, Len(path))
    ELSE path

SnippetStems == {"ns.cart", "en"}

SnippetDirs ==
    { <<"widget", name>> : name \in PathNames }
    \cup { <<"widget", name, "instances", instance>> :
               name \in PathNames, instance \in PathNames }

\* C23: a locale snippet file named <stem>-temp.json is classified as the
\* file <stem>.json of the same directory is, as base snippets under the
\* base directory of a widget and as instance snippets under the directory
\* of an instance.
C23_TempSnippets ==
    \A dir \in SnippetDirs, stem \in SnippetStems :
        (/\ call.op = "classify"
         /\ call.path = dir \o <<"locales", "en", stem \o "-temp.json">>)
        => /\ result.fileType
                  = classify(dir \o <<"locales", "en", stem \o ".json">>)
           /\ result.fileType = IF Len(dir) = 2
                                THEN "WIDGET_BASE_SNIPPETS"
                                ELSE "WIDGET_INSTANCE_SNIPPETS"

C23_Witness ==
    /\ call.op = "classify"
    /\ call.path = <<"widget", "Cart Summary", "instances", "locales",
                     "locales", "en", "ns.cart-temp.json">>
    /\ result.fileType = "WIDGET_INSTANCE_SNIPPETS"
    /\ classify(<<"widget", "Cart Summary", "instances", "locales",
                  "locales", "en", "ns.cart.json">>)
           = "WIDGET_INSTANCE_SNIPPETS"

GlobalElementTypes ==
    {"GLOBAL_ELEMENT_TEMPLATE", "GLOBAL_ELEMENT_JAVASCRIPT",
     "GLOBAL_ELEMENT_METADATA"}

\* The callback of metadata.js 495-496: && evaluates its right operand,
\* which reads a property of the widget record, only for a descriptor of
\* the element's version.
sameVersionAndWidgetType(widget, elementMetadata, widgetMetadata) ==
    IF elementMetadata.kind # "value" THEN "throw"
    ELSE IF "version" \notin DOMAIN elementMetadata.value THEN "false"
    ELSE IF widget.version # elementMetadata.value.version THEN "false"
    ELSE IF widgetMetadata.kind # "value" THEN "throw"
    ELSE IF "widgetType" \notin DOMAIN widgetMetadata.value THEN "false"
    ELSE IF widget.widgetType = widgetMetadata.value.widgetType THEN "true"
    ELSE "false"

\* metadata.js 473-488: the element is a global one.
globalElementOutcome(c, inTransferMode, elementMetadata) ==
    IF elementMetadata.kind # "value" THEN Outcome(Throws, << >>)
    ELSE IF MapHas(c.globalElements, elementMetadata.value.tag)
    THEN Outcome(elementMetadata,
                 IF inTransferMode THEN <<Info("matchingElementFound")>>
                 ELSE << >>)
    ELSE Outcome(ReturnsNull, <<Warn("noMatchingElementFound")>>)

\* metadata.js 489-511 with the last descriptor that agrees.
widgetElementOutcomeLast(c, inTransferMode, elementMetadata, widgetMetadata) ==
    LET matchingWidget ==
            FindLast(c.widgetDescriptors,
                 [i \in DOMAIN c.widgetDescriptors |->
                     sameVersionAndWidgetType(c.widgetDescriptors[i],
                                              elementMetadata,
                                              widgetMetadata)])
    IN  IF matchingWidget.found = "throw" THEN Outcome(Throws, << >>)
        ELSE IF matchingWidget.found = "yes"
        THEN Outcome(Value([tag |-> elementMetadata.value.tag,
                            widgetId |-> matchingWidget.item.repositoryId]),
                     IF inTransferMode
                     THEN <<Info("matchingElementFound")>> ELSE << >>)
        ELSE Outcome(ReturnsNull, <<Warn("noMatchingElementFound")>>)

\* metadata.js 489-511: the element is under a widget.
widgetElementOutcome(c, inTransferMode, elementMetadata, widgetMetadata) ==
    LET matchingWidget ==
            Find(c.widgetDescriptors,
                 [i \in DOMAIN c.widgetDescriptors |->
                     sameVersionAndWidgetType(c.widgetDescriptors[i],
                                              elementMetadata,
                                              widgetMetadata)])
    IN  IF matchingWidget.found = "throw" THEN Outcome(Throws, << >>)
        ELSE IF matchingWidget.found = "yes"
        THEN Outcome(Value([tag |-> elementMetadata.value.tag,
                            widgetId |-> matchingWidget.item.repositoryId]),
                     IF inTransferMode
                     THEN <<Info("matchingElementFound")>> ELSE << >>)
        ELSE Outcome(ReturnsNull, <<Warn("noMatchingElementFound")>>)

\* getMatchingElement (metadata.js 467-512)
getMatchingElement(c, fs, tags, inTransferMode, path) ==
    LET elementMetadata ==
            readMetadataFromDisk(fs, tags, path, elementMetadataJson, FALSE)
        fileType == classify(path)
    IN  IF elementMetadata.kind = "throw" THEN Outcome(Throws, << >>)
        ELSE IF fileType \in GlobalElementTypes
        THEN globalElementOutcome(c, inTransferMode, elementMetadata)
        ELSE widgetElementOutcome(
                 c, inTransferMode, elementMetadata,
                 readMetadataFromDisk(fs, tags, path, widgetMetadataJson,
                                      FALSE))

\* elementExistsOnTarget (metadata.js 586-593)
elementExistsOnTarget(c, fs, tags, path) ==
    LET metadata ==
            readMetadataFromDisk(fs, tags, path, elementMetadataJson, FALSE)
    IN  IF metadata.kind # "value" THEN Outcome(Throws, << >>)
        ELSE IF MapHas(c.globalElements, metadata.value.tag)
        THEN Outcome(Value(c.globalElements[metadata.value.tag]), << >>)
        ELSE Outcome(ReturnsUndefined, << >>)

GlobalElementFile == GlobalElementDir \o <<"element.template">>

WidgetElementFile == <<"widget", "W", "element", "E", "element.template">>

ElementTags == {"g1", "g2"}

ElementLists ==
    { << >> } \cup { <<Element(t, "GE" \o t)>> : t \in ElementTags }
    \cup { <<Element("g1", "GE1"), Element("g2", "GE2")>> }

LocalElementRecords ==
    { [tag |-> t, version |-> v] : t \in ElementTags, v \in Versions }

LocalElementFiles ==
    {EmptyMap}
    \cup { TrackingFile(GlobalElementFile, elementMetadataJson, r)
           : r \in LocalElementRecords }
    \cup { Merge(TrackingFile(WidgetElementFile, elementMetadataJson, r), fw)
           : r \in LocalElementRecords, fw \in LocalWidgetFiles }

\* The descriptor lists an element under a widget is matched against.
ElementDescriptorLists ==
    { ds \in DescriptorLists :
        \A i \in DOMAIN ds : ds[i].displayName = "A" /\ ds[i].layouts = << >> }

ElementServers ==
    { [FixedServer(NoItems, NoItems) EXCEPT !.ge = ge] : ge \in ElementLists }
    \cup
    { [FixedServer(NoItems, NoItems) EXCEPT !.wd = wd]
      : wd \in ElementDescriptorLists }

CallGetMatchingElement(path) ==
    /\ call' = [op |-> "getMatchingElement", path |-> path]
    /\ LET outcome == getMatchingElement(cache, files, etags, transfer,
                                         path)
       IN  /\ result' = outcome.ret
           /\ log' = outcome.log
    /\ UNCHANGED <<cacheVars, storeVars, transfer>>

CallElementExistsOnTarget(path) ==
    /\ call' = [op |-> "elementExistsOnTarget", path |-> path]
    /\ LET outcome == elementExistsOnTarget(cache, files, etags, path)
       IN  /\ result' = outcome.ret
           /\ log' = outcome.log
    /\ UNCHANGED <<cacheVars, storeVars, transfer>>

InitElement ==
    /\ server \in ElementServers
    /\ supports \in BOOLEAN
    /\ \E order \in CompletionOrders : PopulatedSession(order)
    /\ files \in LocalElementFiles
    /\ etags = [p \in {GlobalElementFile, WidgetElementFile} |-> "etag1"]
    /\ written = EmptyMap
    /\ transfer \in BOOLEAN
    /\ call = NoCall
    /\ result = NoResult
    /\ log = << >>

NextElement ==
    \/ \E path \in {GlobalElementFile, WidgetElementFile} :
          CallGetMatchingElement(path)
    \/ \E path \in {GlobalElementFile, WidgetElementFile} :
          CallElementExistsOnTarget(path)

SpecElement == InitElement /\ [][NextElement]_vars

CompletionOrder == CHOOSE order \in CompletionOrders : TRUE

\* What getMatchingElement reports for the asset of the last call when the
\* listing is supported and the server lists the elements ge.
SupportedOutcome(ge) ==
    getMatchingElement(
        Populated([server EXCEPT !.ge = ge], TRUE, CompletionOrder),
        files, etags, transfer, call.path)

\* C9: with the element listing unsupported, what getMatchingElement reports
\* for a global element differs from what it reports when the listing is
\* supported and globalElements holds no element with the record's tag.
C9_UnsupportedDistinguishable ==
    (/\ call.op = "getMatchingElement"
     /\ classify(call.path) \in GlobalElementTypes
     /\ HasLocalRecord(call.path, elementMetadataJson)
     /\ ~supports)
    => \A ge \in ElementLists :
          (\A i \in DOMAIN ge :
              ge[i].tag # LocalRecord(call.path, elementMetadataJson).tag)
          => Outcome(result, log) # SupportedOutcome(ge)

\* C18: for an element path with an existing local element record, global
\* or under a widget, elementExistsOnTarget is truthy exactly when
\* getMatchingElement returns a reference.
C18_ElementExistsIffMatches ==
    (/\ call.op = "elementExistsOnTarget"
     /\ HasLocalRecord(call.path, elementMetadataJson))
    => (Truthy(result)
        <=> getMatchingElement(cache, files, etags, transfer,
                               call.path).ret.kind = "value")

\* The descriptors of the cache with the version of the local element
\* record and the widgetType of the local record of the owning widget.
ElementWidgetHits ==
    LET ds == cache.widgetDescriptors
    IN  {i \in DOMAIN ds :
            /\ ds[i].version
                  = LocalRecord(call.path, elementMetadataJson).version
            /\ ds[i].widgetType
                  = LocalRecord(call.path, widgetMetadataJson).widgetType}

\* C19: getMatchingElement takes the element for global or widget-scoped
\* by the classification of its path; a global element matches exactly when
\* globalElements holds the recorded tag; an element under a widget matches
\* exactly when some cached descriptor has the element's recorded version
\* and the owning widget's recorded widgetType, the result then being
\* {tag, widgetId} with the repositoryId of the first such descriptor.
C19_ElementMatch ==
    (/\ call.op = "getMatchingElement"
     /\ HasLocalRecord(call.path, elementMetadataJson))
    => IF classify(call.path) \in GlobalElementTypes
       THEN /\ (result.kind = "value")
                  <=> MapHas(cache.globalElements,
                             LocalRecord(call.path, elementMetadataJson).tag)
            /\ result.kind # "value" => result = ReturnsNull
       ELSE HasLocalRecord(call.path, widgetMetadataJson)
            => /\ (result.kind = "value") <=> (ElementWidgetHits # {})
               /\ ElementWidgetHits = {} => result = ReturnsNull
               /\ \A i \in ElementWidgetHits :
                     (\A j \in ElementWidgetHits : i <= j)
                     => result.value
                           = [tag |-> LocalRecord(call.path,
                                                  elementMetadataJson).tag,
                              widgetId |->
                                  cache.widgetDescriptors[i].repositoryId]

C19_Witness ==
    /\ call.op = "getMatchingElement"
    /\ call.path = WidgetElementFile
    /\ HasLocalRecord(call.path, elementMetadataJson)
    /\ HasLocalRecord(call.path, widgetMetadataJson)
    /\ Cardinality(ElementWidgetHits) = 2
    /\ result = Value([tag |-> "g2", widgetId |-> "W1"])

(***************************************************************************)
(* Matching stacks, stack instances and themes.                            *)
(***************************************************************************)
\* A property of an object as a template literal or a Map key sees it: a
\* property that is not set reads as undefined.
Field(obj, f) == IF f \in DOMAIN obj THEN obj[f] ELSE Undefined

\* The callback of metadata.js 418-419 and 578-579.
sameVersionAndStackName(stack, md) ==
    IF md.kind # "value" THEN "throw"
    ELSE IF /\ stack.version = md.value.version
            /\ stack.displayName = Field(md.value, "displayName")
         THEN "true" ELSE "false"

\* getMatchingStack (metadata.js 412-433)
getMatchingStack(c, fs, tags, path) ==
    LET metadata == readMetadataFromDisk(fs, tags, path, stackMetadataJson,
                                         FALSE)
        matchingStack ==
            Find(c.stackDescriptors,
                 [i \in DOMAIN c.stackDescriptors |->
                     sameVersionAndStackName(c.stackDescriptors[i],
                                             metadata)])
    IN  IF metadata.kind = "throw" \/ matchingStack.found = "throw"
        THEN Outcome(Throws, << >>)
        ELSE IF matchingStack.found = "yes"
        THEN Outcome(Value([repositoryId |-> matchingStack.item.repositoryId,
                            stackType |-> matchingStack.item.stackType]),
                     <<Info("matchingStackFound")>>)
        ELSE Outcome(ReturnsNull, <<Warn("noMatchingStackFound")>>)

\* getCachedStackInstanceFromMetadata (metadata.js 404-406): reading name
\* of a null record throws.
getCachedStackInstanceFromMetadata(c, metadata) ==
    IF metadata.kind # "value" THEN Throws
    ELSE LET key == makeWidgetInstanceKey(Field(metadata.value, "name"),
                              metadata.value.version)
         IN  IF MapHas(c.stackInstances, key)
             THEN Value(c.stackInstances[key])
             ELSE ReturnsUndefined

\* getMatchingStackInstance (metadata.js 439-461)
getMatchingStackInstance(c, fs, tags, path) ==
    LET metadata ==
            readMetadataFromDisk(fs, tags, path, stackInstanceMetadataJson,
                                 FALSE)
        matchingStackInstance == getCachedStackInstanceFromMetadata(c, metadata)
    IN  IF matchingStackInstance.kind = "throw" THEN Outcome(Throws, << >>)
        ELSE IF matchingStackInstance.kind = "value"
        THEN Outcome(
                Value([repositoryId |->
                           matchingStackInstance.value.repositoryId,
                       version |-> metadata.value.version,
                       displayName |->
                           matchingStackInstance.value.displayName]),
                <<Info("matchingStackInstanceFound")>>)
        ELSE Outcome(ReturnsNull, <<Warn("noMatchingStackInstanceFound")>>)

\* getMatchingTheme (metadata.js 519-539) telling the user of a match in
\* every mode.
getMatchingThemeAlwaysInfo(c, fs, tags, inTransferMode, path) ==
    LET metadata == readMetadataFromDisk(fs, tags, path, themeMetadataJson,
                                         FALSE)
    IN  IF metadata.kind # "value" THEN Outcome(Throws, << >>)
        ELSE IF MapHas(c.themes, Field(metadata.value, "displayName"))
        THEN Outcome(
                Value([repositoryId |->
                         c.themes[metadata.value.displayName].repositoryId]),
                <<Info("matchingThemeFound")>>)
        ELSE Outcome(ReturnsNull, <<Warn("noMatchingThemeFound")>>)

\* getMatchingTheme (metadata.js 519-539)
getMatchingTheme(c, fs, tags, inTransferMode, path) ==
    LET metadata == readMetadataFromDisk(fs, tags, path, themeMetadataJson,
                                         FALSE)
    IN  IF metadata.kind # "value" THEN Outcome(Throws, << >>)
        ELSE IF MapHas(c.themes, Field(metadata.value, "displayName"))
        THEN Outcome(
                Value([repositoryId |->
                         c.themes[metadata.value.displayName].repositoryId]),
                IF inTransferMode THEN <<Info("matchingThemeFound")>>
                ELSE << >>)
        ELSE Outcome(ReturnsNull, <<Warn("noMatchingThemeFound")>>)

StackFile == <<"stack", "S", "stack.template">>

StackInstanceFile == <<"stack", "S", "instances", "SI", "stack.template">>

ThemeFile == <<"theme", "Dark", "styles.less">>

\* The sessions the matchers of all families are exercised in: the server
\* content of one family varies at a time.
StackDescriptorLists ==
    { << >> } \cup { <<StackDescriptor("SD1", "S", v, "st1")>> : v \in Versions }

\* The name of a stack instance is its display name or, as for the
\* instances friendlyStackInstanceName is about, its repository id.
StackInstanceLists ==
    { << >> } \cup
    { <<[repositoryId |-> "S1",
         instances |-> <<StackInstance("SI1", n, "S", v)>>]>>
      : n \in {"S", "SI1"}, v \in Versions }

ThemeLists == { << >>, <<Theme("Dark", "T1")>> }

MatchServers ==
    { [FixedServer(p100, NoItems) EXCEPT !.wd = wd]
      : p100 \in LayoutPartition("100", {"A"}), wd \in ShortDescriptorLists }
    \cup
    { [FixedServer(NoItems, NoItems) EXCEPT !.sd = sd, !.si = si]
      : sd \in StackDescriptorLists, si \in StackInstanceLists }
    \cup
    { [FixedServer(NoItems, NoItems) EXCEPT !.th = th, !.ge = ge]
      : th \in ThemeLists, ge \in ElementLists }

MatchAssets ==
    {WidgetFile, WidgetInstanceFile, StackFile, StackInstanceFile,
     GlobalElementFile, WidgetElementFile, ThemeFile}

LocalStackInstanceRecords(v) ==
    { [displayName |-> "S", version |-> v] }
    \cup { [name |-> n, displayName |-> "S", version |-> v]
           : n \in {"S", "SI1"} }

\* The tracking files of a working tree in which every asset was grabbed.
FullTracking(v, e, stackInstanceRecord) ==
    Merge(Merge(Merge(
        TrackingFile(WidgetFile, widgetMetadataJson,
                     [displayName |-> "A", version |-> v,
                      widgetType |-> "t1", elementized |-> e]),
        TrackingFile(WidgetInstanceFile, widgetInstanceMetadataJson,
                     [displayName |-> "A", version |-> v])),
      Merge(
        TrackingFile(StackFile, stackMetadataJson,
                     [displayName |-> "S", version |-> v,
                      stackType |-> "st1"]),
        TrackingFile(StackInstanceFile, stackInstanceMetadataJson,
                     stackInstanceRecord))),
      Merge(Merge(
        TrackingFile(GlobalElementFile, elementMetadataJson,
                     [tag |-> "g1", version |-> v]),
        TrackingFile(WidgetElementFile, elementMetadataJson,
                     [tag |-> "g1", version |-> v])),
        TrackingFile(ThemeFile, themeMetadataJson,
                     [displayName |-> "Dark"])))

MatchFiles ==
    {EmptyMap} \cup
    { FullTracking(v, e, r)
      : v \in Versions, e \in BOOLEAN,
        r \in UNION { LocalStackInstanceRecords(w) : w \in Versions } }

CallGetMatchingStack(path) ==
    /\ call' = [op |-> "getMatchingStack", path |-> path]
    /\ LET outcome == getMatchingStack(cache, files, etags, path)
       IN  /\ result' = outcome.ret
           /\ log' = outcome.log
    /\ UNCHANGED <<cacheVars, storeVars, transfer>>

CallGetMatchingStackInstance(path) ==
    /\ call' = [op |-> "getMatchingStackInstance", path |-> path]
    /\ LET outcome == getMatchingStackInstance(cache, files, etags, path)
       IN  /\ result' = outcome.ret
           /\ log' = outcome.log
    /\ UNCHANGED <<cacheVars, storeVars, transfer>>

CallGetMatchingTheme(path) ==
    /\ call' = [op |-> "getMatchingTheme", path |-> path]
    /\ LET outcome == getMatchingTheme(cache, files, etags, transfer, path)
       IN  /\ result' = outcome.ret
           /\ log' = outcome.log
    /\ UNCHANGED <<cacheVars, storeVars, transfer>>

InitMatch ==
    /\ server \in MatchServers
    /\ supports = TRUE
    /\ PopulatedSession(CompletionOrder)
    /\ files \in MatchFiles
    /\ etags = [p \in MatchAssets |-> "etag1"]
    /\ written = EmptyMap
    /\ transfer \in BOOLEAN
    /\ call = NoCall
    /\ result = NoResult
    /\ log = << >>

NextMatch ==
    \/ CallGetMatchingWidget(WidgetFile)
    \/ CallGetMatchingWidgetInstance(WidgetInstanceFile)
    \/ CallGetMatchingStack(StackFile)
    \/ CallGetMatchingStackInstance(StackInstanceFile)
    \/ \E path \in {GlobalElementFile, WidgetElementFile} :
          CallGetMatchingElement(path)
    \/ CallGetMatchingTheme(ThemeFile)

SpecMatch == InitMatch /\ [][NextMatch]_vars

\* The matchers, each with the type of tracking record it loads first.
MatcherRecord ==
    [getMatchingWidget |-> widgetMetadataJson,
     getMatchingWidgetInstance |-> widgetInstanceMetadataJson,
     getMatchingStack |-> stackMetadataJson,
     getMatchingStackInstance |-> stackInstanceMetadataJson,
     getMatchingElement |-> elementMetadataJson,
     getMatchingTheme |-> themeMetadataJson]

IsFound(message) == message.level = "info"

IsNotFound(message) == message.level = "warn"

\* C13: a matcher called for an asset whose local tracking record is absent
\* ends in a failure propagated to the caller, not in the no-match result.
C13_AbsentRecordFails ==
    (/\ call.op \in DOMAIN MatcherRecord
     /\ ~HasLocalRecord(call.path, MatcherRecord[call.op]))
    => result = Throws

\* C14: every completed call of a matcher emits exactly one outcome message,
\* a "found" message when it returns a reference and a "not found" message
\* when it returns no-match, in every family, in transfer mode and outside.
C14_OneOutcomeMessage ==
    (call.op \in DOMAIN MatcherRecord /\ result # Throws)
    => /\ Len(log) = 1
       /\ result.kind = "value" => IsFound(log[1])
       /\ result = ReturnsNull => IsNotFound(log[1])

\* C14 as the code has it: a call that returns no-match emits exactly one
\* "not found" message; a call that returns a reference emits exactly one
\* "found" message, except that the element and theme matchers emit it in
\* transfer mode only and nothing outside it.
C14_OneOutcomeMessageOrQuietFind ==
    (call.op \in DOMAIN MatcherRecord /\ result # Throws)
    => /\ result = ReturnsNull => (Len(log) = 1 /\ IsNotFound(log[1]))
       /\ result.kind = "value" =>
             IF call.op \in {"getMatchingElement", "getMatchingTheme"}
                /\ ~transfer
             THEN log = << >>
             ELSE Len(log) = 1 /\ IsFound(log[1])

C14_Witness ==
    /\ call.op = "getMatchingTheme"
    /\ ~transfer
    /\ result = Value([repositoryId |-> "T1"])
    /\ log = << >>

\* The stack instances the server returned, of all stacks.
ServerStackInstances == Range(ConcatInstances(server.si))

\* C20: a local stack-instance record with displayName n and version v is
\* resolved by getMatchingStackInstance to the stack instance the server
\* returned with display name n and version v.
C20_StackInstanceByDisplayName ==
    (/\ call.op = "getMatchingStackInstance"
     /\ HasLocalRecord(call.path, stackInstanceMetadataJson))
    => LET local == LocalRecord(call.path, stackInstanceMetadataJson)
       IN  \A i \in ServerStackInstances :
              (/\ i.displayName = local.displayName
               /\ i.descriptor.version = local.version)
              => /\ result.kind = "value"
                 /\ result.value.repositoryId = i.repositoryId

(***************************************************************************)
(* readMetadata: the record of an asset as the target server knows it.     *)
(***************************************************************************)
\* readMetadataFromServer (metadata.js 265-297); readMetadata is
\* Promise.method of it, so a TypeError thrown on the way rejects the
\* promise.
readMetadataFromServer(c, fs, tags, inTransferMode, path, type) ==
    LET matched ==
            CASE type = themeMetadataJson
                    -> getMatchingTheme(c, fs, tags, inTransferMode, path)
              [] type = elementMetadataJson
                    -> getMatchingElement(c, fs, tags, inTransferMode, path)
              [] type = stackMetadataJson
                    -> getMatchingStack(c, fs, tags, path)
              [] type = stackInstanceMetadataJson
                    -> getMatchingStackInstance(c, fs, tags, path)
              [] type = widgetMetadataJson
                    -> getMatchingWidget(c, fs, tags, path)
              [] type = widgetInstanceMetadataJson
                    -> getMatchingWidgetInstance(c, fs, tags, path)
              [] type = configMetadataJson
                    -> Outcome(readMetadataFromDisk(fs, tags, path, type,
                                                    FALSE), << >>)
              [] OTHER -> Outcome(ReturnsUndefined, << >>)
    IN  IF ~inTransferMode /\ matched.ret.kind = "value"
        THEN Outcome(Value(WithField(matched.ret.value, "etag",
                                     eTagFor(tags, path))),
                     matched.log)
        ELSE matched

\* The assets read and the metadata type each is read with.
ReadRequests ==
    {<<WidgetFile, widgetMetadataJson>>,
     <<WidgetInstanceFile, widgetInstanceMetadataJson>>,
     <<StackFile, stackMetadataJson>>,
     <<StackInstanceFile, stackInstanceMetadataJson>>,
     <<GlobalElementFile, elementMetadataJson>>,
     <<WidgetElementFile, elementMetadataJson>>,
     <<ThemeFile, themeMetadataJson>>,
     <<WidgetFile, configMetadataJson>>}

\* The tracking files of a grab, the record of the grab itself included.
ReadFiles ==
    {EmptyMap} \cup
    { Merge(fs, TrackingFile(WidgetFile, configMetadataJson,
                             [node |-> "n1"])) :
          fs \in MatchFiles \ {EmptyMap} }

ReadMetadata(path, type) ==
    /\ call' = [op |-> "readMetadata", path |-> path, type |-> type]
    /\ LET outcome == readMetadataFromServer(cache, files, etags, transfer,
                                             path, type)
       IN  /\ result' = outcome.ret
           /\ log' = outcome.log
    /\ UNCHANGED <<cacheVars, storeVars, transfer>>

InitRead ==
    /\ server \in MatchServers
    /\ supports = TRUE
    /\ PopulatedSession(CompletionOrder)
    /\ files \in ReadFiles
    /\ etags = [p \in MatchAssets |-> "etag1"]
    /\ written = EmptyMap
    /\ transfer \in BOOLEAN
    /\ call = NoCall
    /\ result = NoResult
    /\ log = << >>

NextRead ==
    /\ call = NoCall
    /\ \E request \in ReadRequests : ReadMetadata(request[1], request[2])

SpecRead == InitRead /\ [][NextRead]_vars

\* C27: a record returned by readMetadata carries, outside transfer mode,
\* the etag of the path and, in transfer mode, no etag of the local side
\* channel, whatever the metadata type.  (The tracking records read here
\* store no etag of their own.)
C27_EtagOnlyOutsideTransfer ==
    (call.op = "readMetadata" /\ result.kind = "value")
    => IF transfer
       THEN "etag" \notin DOMAIN result.value
       ELSE Field(result.value, "etag") = eTagFor(etags, call.path)

(***************************************************************************)
(* The tracking store: tracking records are written and read back.         *)
(***************************************************************************)
\* The assets the store is exercised on, each with a type of metadata.
StoreAssets ==
    {<<WidgetFile, widgetMetadataJson>>,
     <<WidgetInstanceFile, widgetInstanceMetadataJson>>,
     <<WidgetInstanceFile, widgetMetadataJson>>,
     <<GlobalElementDir, elementMetadataJson>>,
     <<WidgetInstanceFile, configMetadataJson>>}

StoreContents ==
    {EmptyMap,
     [displayName |-> "A", version |-> 1, elementized |-> TRUE],
     [tag |-> "g1", etag |-> "stale"]}

EtagChoices ==
    {EmptyMap,
     [p \in {WidgetFile, WidgetInstanceFile, GlobalElementDir} |-> "etag1"]}

WriteMetadata(path, content) ==
    /\ files' = writeFile(files, writeMetadataPath(path),
                          writeMetadataText(content))
    /\ written' = MapSet(written, <<BaseDir>> \o writeMetadataPath(path),
                         content)
    /\ call' = [op |-> "writeMetadata", path |-> path]
    /\ result' = [kind |-> "undefined"]
    /\ UNCHANGED <<cacheVars, etags, transfer, log>>

ReadMetadataFromDisk(path, type, excludeEtag) ==
    /\ call' = [op |-> "readMetadataFromDisk", path |-> path, type |-> type,
                excludeEtag |-> excludeEtag]
    /\ result' = readMetadataFromDisk(files, etags, path, type, excludeEtag)
    /\ UNCHANGED <<cacheVars, storeVars, transfer, log>>

\* The fields an update supplies: none, or one that overwrites and one that
\* is new.
UpdateFields == {EmptyMap, [version |-> MaxVersion, node |-> "n1"]}

UpdateMetadata(path, type, additionalMetadata) ==
    /\ call' = [op |-> "updateMetadata", path |-> path, type |-> type,
                fields |-> additionalMetadata]
    /\ LET outcome == updateMetadata(files, etags, path, type,
                                     additionalMetadata)
       IN  /\ result' = outcome.ret
           /\ files' = outcome.fs
           /\ written' = IF outcome.fs = files THEN written
                         ELSE Without(written, getMetadataPath(path, type))
    /\ UNCHANGED <<cacheVars, etags, transfer, log>>

InitStore ==
    /\ server = FixedServer(NoItems, NoItems)
    /\ supports = TRUE
    /\ IdleCache
    /\ files = EmptyMap
    /\ written = EmptyMap
    /\ etags \in EtagChoices
    /\ IdleCalls

NextStore ==
    \/ \E a \in StoreAssets, c \in StoreContents :
          WriteMetadata(TrackingLocation(a), c)
    \/ \E a \in StoreAssets, x \in BOOLEAN :
          ReadMetadataFromDisk(a[1], a[2], x)

SpecStore == InitStore /\ [][NextStore]_vars

\* Updates start from a store a grab has left: no tracking file, or the
\* tracking file of one asset.
UpdateFiles ==
    {EmptyMap} \cup
    { TrackingFile(a[1], a[2], c) : a \in StoreAssets, c \in StoreContents }

InitUpdate ==
    /\ server = FixedServer(NoItems, NoItems)
    /\ supports = TRUE
    /\ IdleCache
    /\ files \in UpdateFiles
    /\ written = EmptyMap
    /\ etags \in EtagChoices
    /\ IdleCalls

NextUpdate ==
    \E a \in StoreAssets, f \in UpdateFields : UpdateMetadata(a[1], a[2], f)

SpecUpdate == InitUpdate /\ [][NextUpdate]_vars

\* The tracking file an update step works on.
UpdatedPath == getMetadataPath(call'.path, call'.type)

\* C11: updateMetadata on an asset without a tracking record fails and
\* leaves the tracking store as it was, no file appearing at the computed
\* metadata path, whatever fields are supplied, none included.
C11_UpdateWithoutRecordFails ==
    [][(call'.op = "updateMetadata" /\ ~exists(files, UpdatedPath))
       => (result' = Throws /\ files' = files)]_vars

\* C12: updateMetadata on an existing record writes, at the metadata path
\* it read, a record in which each supplied key has the supplied value and
\* each other stored key keeps its value; the etag of the side channel is
\* not persisted and no other tracking file changes.
C12_UpdateMerges ==
    [][(/\ call'.op = "updateMetadata"
        /\ exists(files, UpdatedPath)
        /\ readJsonFile(files, UpdatedPath) # Null)
       => LET stored == readJsonFile(files, UpdatedPath)
              now == readJsonFile(files', UpdatedPath)
          IN  /\ DOMAIN files' = DOMAIN files
              /\ \A q \in DOMAIN files : q # UpdatedPath => files'[q] = files[q]
              /\ DOMAIN now = (DOMAIN stored) \cup (DOMAIN call'.fields)
              /\ \A k \in DOMAIN call'.fields : now[k] = call'.fields[k]
              /\ \A k \in (DOMAIN stored) \ (DOMAIN call'.fields) :
                    now[k] = stored[k]]_vars

C12_Witness ==
    /\ call.op = "updateMetadata"
    /\ call.path = WidgetFile
    /\ call.type = widgetMetadataJson
    /\ call.fields = [version |-> MaxVersion, node |-> "n1"]
    /\ eTagFor(etags, call.path) = "etag1"
    /\ result = [kind |-> "undefined"]
    /\ readJsonFile(files, getMetadataPath(call.path, call.type))
          = [displayName |-> "A", version |-> MaxVersion,
             elementized |-> TRUE, node |-> "n1"]

(***************************************************************************)
(* Writes and updates in any order: a grab writes the records of two       *)
(* assets, later operations update them.                                   *)
(***************************************************************************)
TrackedAssets ==
    {<<WidgetFile, widgetMetadataJson>>,
     <<WidgetInstanceFile, widgetInstanceMetadataJson>>}

InitTrack ==
    /\ server = FixedServer(NoItems, NoItems)
    /\ supports = TRUE
    /\ IdleCache
    /\ IdleStore
    /\ IdleCalls

NextTrack ==
    \/ \E a \in TrackedAssets, c \in StoreContents :
          WriteMetadata(TrackingLocation(a), c)
    \/ \E a \in TrackedAssets, f \in UpdateFields :
          UpdateMetadata(a[1], a[2], f)

SpecTrack == InitTrack /\ [][NextTrack]_vars

\* C24: whatever writeMetadata and updateMetadata calls have run, every
\* tracking file that holds a record holds the pretty-printed serialization
\* of that record followed by a newline.
C24_TrailingNewline ==
    \A p \in DOMAIN files :
        JSONparse(files[p]) # Null
        => files[p] = JSONstringify(JSONparse(files[p])) \o <<Tok("\n")>>

(***************************************************************************)
(* The tracking location on its own: getMetadataPath is given the path of  *)
(* a file or directory of a widget or a stack, or of one of its instances, *)
(* and one of the metadata types of the family.  The names are free text   *)
(* and include the words the function looks for.                           *)
(***************************************************************************)
AssetNames == {"Cart Summary", "instances", "widget", "stack"}

InsideAsset ==
    {<< >>, <<"display.template">>, <<"locales", "en", "ns.cart.json">>,
     <<"element", "instances", "element.js">>}

AssetPaths ==
    { <<family, name>> \o inside :
          family \in {"widget", "stack"}, name \in AssetNames,
          inside \in InsideAsset }
    \cup { <<family, name, "instances", instance>> \o inside :
               family \in {"widget", "stack"}, name \in AssetNames,
               instance \in AssetNames, inside \in InsideAsset }

BaseType(family) ==
    IF family = "widget" THEN widgetMetadataJson ELSE stackMetadataJson

InstanceType(family) ==
    IF family = "widget" THEN widgetInstanceMetadataJson
    ELSE stackInstanceMetadataJson

GetMetadataPath(path, type) ==
    /\ call' = [op |-> "getMetadataPath", path |-> path, type |-> type]
    /\ result' = [kind |-> "path", path |-> getMetadataPath(path, type)]
    /\ UNCHANGED <<cacheVars, storeVars, transfer, log>>

InitPath ==
    /\ server = FixedServer(NoItems, NoItems)
    /\ supports = TRUE
    /\ IdleCache
    /\ IdleStore
    /\ IdleCalls

NextPath ==
    /\ call = NoCall
    /\ \E path \in AssetPaths :
          \E type \in {BaseType(path[1]), InstanceType(path[1])} :
              GetMetadataPath(path, type)

SpecPath == InitPath /\ [][NextPath]_vars

\* C25: for every family (widget, stack), every asset name and every
\* instance name, the words "instances" and "widget" included,
\* getMetadataPath maps every path inside <family>/<W>/instances/<I>/ with
\* the instance type to <base>/<tracking>/<family>/<W>/instances/<I>/<type>
\* and every path inside <family>/<W>/ with the base type to
\* <base>/<tracking>/<family>/<W>/<type>.
C25_TrackingLocation ==
    \A family \in {"widget", "stack"}, name \in AssetNames :
        /\ (/\ call.op = "getMetadataPath"
            /\ call.type = BaseType(family)
            /\ Len(call.path) >= 2
            /\ SubSeq(call.path, 1, 2) = <<family, name>>)
           => result.path
                  = <<BaseDir, trackingDir, family, name, call.type>>
        /\ \A instance \in AssetNames :
               (/\ call.op = "getMetadataPath"
                /\ call.type = InstanceType(family)
                /\ Len(call.path) >= 4
                /\ SubSeq(call.path, 1, 4)
                       = <<family, name, "instances", instance>>)
               => result.path
                      = <<BaseDir, trackingDir, family, name, "instances",
                          instance, call.type>>

(***************************************************************************)
(* The duplicate checks walk the tracking tree.  utils.walkDirectory hands *)
(* each file of the directory to the file listener and goes on to the next *)
(* file only when the listener has called next(); the order in which a     *)
(* directory lists its entries is not fixed.  The walk is at: the files    *)
(* handed to the listener so far, the listener's variable exists, and      *)
(* whether the last listener call asked for the next file.                 *)
(***************************************************************************)
widgetsDir == "widget"

stacksDir == "stack"

elementsDir == "element"

\* The condition of the listeners (metadata.js 649-650, 677-678, 726-727):
\* the file has the name of the metadata file and its record has the
\* value searched under the field.
recordsValue(fs, file, metadataName, field, searched) ==
    /\ file[Len(file)] = metadataName
    /\ Field(readJsonFile(fs, file), field) = searched

\* The files below upath.join(constants.trackingDir, dir).
walkedFiles(fs, dir) ==
    { file \in DOMAIN fs :
          /\ Len(file) > 3
          /\ SubSeq(file, 1, 3) = <<BaseDir, trackingDir, dir>> }

\* callsNext asking for the next file whatever the listener found.
callsNextAlways(found) == TRUE

\* !exists && next()
callsNext(found) == ~found

WalkOrders(fileSet) ==
    { order \in [1 .. Cardinality(fileSet) -> fileSet] :
          \A i, j \in DOMAIN order : order[i] = order[j] => i = j }

\* widgetTypeExists, stackTypeExists and tagExistsIn up to the call of
\* walkDirectory (metadata.js 637-643, 665-671, 716-720).
StartWalk(op, dir, metadataName, field, searched) ==
    /\ \E order \in WalkOrders(walkedFiles(files, dir)) :
          call' = [op |-> op, dir |-> dir, metadataName |-> metadataName,
                   field |-> field, searched |-> searched, order |-> order,
                   visited |-> << >>, exists |-> FALSE, next |-> TRUE]
    /\ UNCHANGED <<cacheVars, storeVars, transfer, result, log>>

WalkOps == {"widgetTypeExists", "stackTypeExists", "tagExistsIn"}

Walking == call.op \in WalkOps /\ result = NoResult

\* The file listener (metadata.js 645-656, 673-684, 722-733) on the next
\* file of the walk.
VisitFile ==
    /\ Walking
    /\ call.next
    /\ Len(call.visited) < Len(call.order)
    /\ LET file == call.order[Len(call.visited) + 1]
           found == \/ call.exists
                    \/ recordsValue(files, file, call.metadataName,
                                    call.field, call.searched)
       IN  call' = [call EXCEPT !.visited = Append(call.visited, file),
                                !.exists = found,
                                !.next = callsNext(found)]
    /\ UNCHANGED <<cacheVars, storeVars, transfer, result, log>>

\* walkDirectory returns when no file is left or next() was not called;
\* the function returns exists (metadata.js 659, 687, 736).
ReturnExists ==
    /\ Walking
    /\ ~call.next \/ Len(call.visited) = Len(call.order)
    /\ result' = Value(call.exists)
    /\ UNCHANGED <<cacheVars, storeVars, transfer, call, log>>

WidgetTypeExists(widgetType) ==
    /\ call = NoCall
    /\ StartWalk("widgetTypeExists", widgetsDir, widgetMetadataJson,
                 "widgetType", widgetType)

StackTypeExists(stackType) ==
    /\ call = NoCall
    /\ StartWalk("stackTypeExists", stacksDir, stackMetadataJson,
                 "stackType", stackType)

TagExistsIn(searchDir, tag) ==
    /\ call = NoCall
    /\ StartWalk("tagExistsIn", searchDir, elementMetadataJson, "tag", tag)

\* The tracking trees walked: the tracking files of two widgets, of an
\* element of the first widget, of a global element and of a stack, each
\* absent or holding one of the records below, as writeMetadata stores it.
WalkFiles ==
    <<<<widgetsDir, "W1", widgetMetadataJson>>,
      <<widgetsDir, "W2", widgetMetadataJson>>,
      <<widgetsDir, "W1", "element", "E", elementMetadataJson>>,
      <<elementsDir, "E", elementMetadataJson>>,
      <<stacksDir, "S", stackMetadataJson>>>>

WalkRecords ==
    <<{[widgetType |-> "t1"], [widgetType |-> "t2"]},
      {[widgetType |-> "t1"], [displayName |-> "A", version |-> 1]},
      {[tag |-> "g1"], [tag |-> "g2"]},
      {[tag |-> "g1"], [tag |-> "g2"]},
      {[stackType |-> "st1"], [stackType |-> "st2"]}>>

RECURSIVE WalkTrees(_)
WalkTrees(n) ==
    IF n = 0 THEN {EmptyMap}
    ELSE LET before == WalkTrees(n - 1)
         IN  before \cup
             { writeFile(fs, writeMetadataPath(WalkFiles[n]),
                         writeMetadataText(record)) :
                   fs \in before, record \in WalkRecords[n] }

InitWalk ==
    /\ server = FixedServer(NoItems, NoItems)
    /\ supports = TRUE
    /\ IdleCache
    /\ files \in WalkTrees(Len(WalkFiles))
    /\ etags = EmptyMap
    /\ written = EmptyMap
    /\ IdleCalls

NextWalk ==
    \/ WidgetTypeExists("t1")
    \/ StackTypeExists("st1")
    \/ \E searchDir \in {elementsDir, widgetsDir} : TagExistsIn(searchDir, "g1")
    \/ VisitFile
    \/ ReturnExists

SpecWalk == InitWalk /\ [][NextWalk]_vars

\* The file is one of those the walk of the call covers, and its record
\* has the searched value in a metadata file of the kind looked for.
RecordsSearched(file) ==
    /\ Len(file) > 3
    /\ SubSeq(file, 1, 3) = <<BaseDir, trackingDir, call.dir>>
    /\ file[Len(file)] = call.metadataName
    /\ Field(JSONparse(files[file]), call.field) = call.searched

\* C26: in a walk of widgetTypeExists, stackTypeExists or tagExistsIn, a
\* file that records the searched value is the last file visited, and the
\* function returns true exactly when some metadata file of its kind below
\* the walked directory records the searched value.
C26_FirstMatchEndsWalk ==
    call.op \in WalkOps =>
        /\ \A i \in DOMAIN call.visited :
               RecordsSearched(call.visited[i]) => i = Len(call.visited)
        /\ result # NoResult
               => result = Value(\E file \in DOMAIN files :
                                     RecordsSearched(file))

C26_Witness ==
    /\ call.op = "widgetTypeExists"
    /\ Len(call.order) = 3
    /\ Len(call.visited) = 2
    /\ ~RecordsSearched(call.visited[1])
    /\ RecordsSearched(call.visited[2])
    /\ RecordsSearched(call.order[3])
    /\ result = Value(TRUE)

\* C10: round trip: after writeMetadata has stored a record at the
\* tracking location of an asset, readMetadataFromDisk for that asset's
\* path and type with the etag excluded returns a value equal to the
\* written content, no field added and none removed.
C10_RoundTrip ==
    (/\ call.op = "readMetadataFromDisk"
     /\ call.excludeEtag
     /\ getMetadataPath(call.path, call.type) \in DOMAIN written)
    => result = Value(written[getMetadataPath(call.path, call.type)])

C10_Witness ==
    /\ call.op = "readMetadataFromDisk"
    /\ call.excludeEtag
    /\ call.path = WidgetInstanceFile
    /\ call.type = widgetInstanceMetadataJson
    /\ eTagFor(etags, call.path) = "etag1"
    /\ getMetadataPath(call.path, call.type) \in DOMAIN written
    /\ result = Value([displayName |-> "A", version |-> 1,
                       elementized |-> TRUE])

(***************************************************************************)
(* Claims about cache population.                                          *)
(***************************************************************************)
ReturnedBy(results, name, version) ==
    /\ results.hasItems
    /\ \E w \in Range(results.items) :
          \E i \in Range(w.instances) :
              i.displayName = name /\ i.version = version

InBothPartitions(name, version) ==
    /\ ReturnedBy(server.wi100, name, version)
    /\ ReturnedBy(server.wi101, name, version)

FromUserCreated(instance) == instance.descriptor.repositoryId = "W101"

\* C5: when both source partitions return an instance with the same
\* displayName and version, the entry left in widgetInstances once
\* cacheWidgetInstances has completed is the user-created (source=101)
\* partition's record, whichever fetch completed first.
C5_UserCreatedWins ==
    wiPromise = "fulfilled" =>
        \A n \in Names, v \in Versions :
            InBothPartitions(n, v) =>
                FromUserCreated(
                    cache.widgetInstances[makeWidgetInstanceKey(n, v)])

AllStarted ==
    \A f \in FetchIds :
        /\ fetch[f] # "idle"
        /\ supports => fetch[f] # "notIssued"

\* C6: initializeMetadata starts all seven cache fetches before any of
\* them completes, reports success only after all seven have completed
\* successfully, reports failure as soon as one of them fails, and never
\* reports success when some fetch failed.
C6_AllOrNothing ==
    /\ (\E f \in FetchIds : fetch[f] \in {"ok", "failed"}) => AllStarted
    /\ aggregate = "resolved" =>
          \A f \in FetchIds :
              \/ fetch[f] = "ok"
              \/ f \in {"we", "ge"} /\ ~supports /\ fetch[f] = "notIssued"
    /\ (\E f \in FetchIds : fetch[f] = "failed") => aggregate = "rejected"

C6_Witness ==
    /\ supports
    /\ aggregate = "resolved"
    /\ \A f \in FetchIds : fetch[f] = "ok"

\* C7 as stated: once the promise of initializeMetadata has settled, with
\* success or with failure, no cache collection is written again.
C7_NoWriteOnceSettled ==
    [][(aggregate \in {"resolved", "rejected"}) => (cache' = cache)]_vars

\* C7 as amended: once the promise of initializeMetadata has been
\* fulfilled, no cache collection is written again.  (After a rejection
\* the requests still in flight complete and store their results.)
C7_NoWriteOnceResolved ==
    [][(aggregate = "resolved") => (cache' = cache)]_vars

C7_Witness ==
    /\ aggregate = "resolved"
    /\ "widgetDescriptors" \in DOMAIN cache
    /\ cache.themes # EmptyMap

\* C8: when the server does not support getElements, no element fetch is
\* issued, initialization succeeds when the other fetches succeed, and
\* globalElements and widgetElements are empty maps afterwards.
C8_UnsupportedLeavesElementsEmpty ==
    ~supports =>
        /\ \A f \in {"we", "ge"} : fetch[f] \in {"idle", "notIssued"}
        /\ (\A f \in FetchIds \ {"we", "ge"} : fetch[f] = "ok")
              => aggregate = "resolved"
        /\ aggregate # "none" =>
              /\ cache.globalElements = EmptyMap
              /\ cache.widgetElements = EmptyMap

C8_Witness ==
    /\ ~supports
    /\ aggregate = "resolved"
    /\ server.ge # << >>
    /\ cache.globalElements = EmptyMap
    /\ cache.widgetElements = EmptyMap

=============================================================================
